---- MODULE Spec2Model ----
(***************************************************************************)
(* Model of the LeRobot arm orchestration of solo-server: serial-port      *)
(* detection (detect_arm_port), the calibration orchestrators              *)
(* (calibration, setup_motors_and_calibration), the success report         *)
(* (check_calibration_success) and the persistence of their results in the *)
(* Session Configuration file (save_lerobot_config, calibration_mode,      *)
(* setup_mode).                                                            *)
(*                                                                         *)
(* Python values are written as strings: True, False and None are "True",  *)
(* "False" and "None"; a str is itself.  A dict is a function whose        *)
(* DOMAIN is its key set.  Operator input is a sequence of characters.     *)
(***************************************************************************)
EXTENDS Integers, Sequences, FiniteSets, TLC

VARIABLES det, orch, chk, file, config, inv, use, disp, wrap, cams, cmap, race, ld, tm, bot, hed, api, built

detVars == <<det>>
orchVars == <<orch>>
chkVars == <<chk>>
roboVars == <<file, config, inv>>
moreVars == <<use, disp, wrap, cams, cmap, race, ld, tm, bot, hed, api, built>>
vars == <<det, orch, chk, file, config, inv, use, disp, wrap, cams, cmap, race, ld, tm, bot, hed, api, built>>

(***************************************************************************)
(* Bounds of the model.                                                    *)
(***************************************************************************)
NumPorts == 2
MaxAnswerLen == 2
MaxCameras == 2
MaxSelectionLen == 3
MaxAttempts == 2

(***************************************************************************)
(* Python values and dicts.                                                *)
(***************************************************************************)
PyTrue == "True"
PyFalse == "False"
PyNone == "None"
EmptyDict == [k \in {} |-> PyNone]

\* bool(v) for the values of the model: None, False and "" are falsy
Truthy(v) == v \notin {PyNone, PyFalse, ""}

\* x and y
PyAnd(x, y) == IF Truthy(x) THEN y ELSE x

\* d.get(k) and d.get(k, default)
Get(d, k) == IF k \in DOMAIN d THEN d[k] ELSE PyNone
GetOr(d, k, default) == IF k \in DOMAIN d THEN d[k] ELSE default

\* d[k] = v
DictSet(d, k, v) == [x \in DOMAIN d \cup {k} |-> IF x = k THEN v ELSE d[x]]

\* d.update(e)
DictUpdate(d, e) ==
    [x \in DOMAIN d \cup DOMAIN e |-> IF x \in DOMAIN e THEN e[x] ELSE d[x]]

PyBool(b) == IF b THEN PyTrue ELSE PyFalse

(***************************************************************************)
(* Operator input: what is typed at a prompt, and int() of it.             *)
(***************************************************************************)
Digits == {"0", "1", "2", "3"}
Chars == Digits \cup {"x", "-"}

RECURSIVE SeqsUpTo(_, _)
SeqsUpTo(S, n) ==
    IF n = 0 THEN {<<>>}
    ELSE LET shorter == SeqsUpTo(S, n - 1)
         IN  shorter \cup {Append(s, c) : s \in shorter, c \in S}

Answers == SeqsUpTo(Chars, MaxAnswerLen)

DigitVal(c) == CASE c = "0" -> 0 [] c = "1" -> 1 [] c = "2" -> 2 [] c = "3" -> 3

RECURSIVE DecimalVal(_)
DecimalVal(s) ==
    IF s = <<>> THEN 0
    ELSE 10 * DecimalVal(SubSeq(s, 1, Len(s) - 1)) + DigitVal(s[Len(s)])

AllDigits(s) == s # <<>> /\ \A i \in 1..Len(s) : s[i] \in Digits

\* int(s): an optional sign, then one or more digits; anything else raises
\* ValueError
PyInt(s) ==
    IF AllDigits(s) THEN [ok |-> TRUE, val |-> DecimalVal(s)]
    ELSE IF s # <<>> /\ s[1] = "-" /\ AllDigits(Tail(s))
         THEN [ok |-> TRUE, val |-> 0 - DecimalVal(Tail(s))]
         ELSE [ok |-> FALSE, val |-> 0]

\* Prompt.ask(..., default=d): an empty line gives the default
PromptAsk(typed, default) == IF typed = <<>> THEN default ELSE typed

(***************************************************************************)
(* Serial ports.                                                           *)
(***************************************************************************)
PortNames == <<"/dev/ttyACM0", "/dev/ttyACM1", "/dev/ttyACM2", "/dev/ttyACM3">>
Ports == {PortNames[i] : i \in 1..NumPorts}

\* find_available_ports(): what the system lists at the time of the call
Snapshots == SUBSET Ports

\* list(set): the elements of S in an iteration order the program does not
\* control
ListOfSet(S) ==
    {s \in [1..Cardinality(S) -> S] : \A i, j \in 1..Cardinality(S) : s[i] = s[j] => i = j}

NoList == <<>>
NotAsked == <<"-", "-", "-">>

\* One complete call of detect_arm_port: the snapshots it took, the prompts it
\* printed in order, the menu it showed (NoList if none), what the operator
\* typed at the menu (NotAsked if no menu), and how the call ended.
DetectRun(before, after, unplugged, nsnap, prompts, menu, typed, ret, raised) ==
    [before |-> before, after |-> after, unplugged |-> unplugged,
     snapshots |-> nsnap, prompts |-> prompts, menu |-> menu, typed |-> typed,
     ret |-> ret, raised |-> raised]

\* Mutant: the typed number used as a 0-based index
select_port_zero_based(cands, typed) ==
    LET choice == PyInt(PromptAsk(typed, <<"1">>))
    IN  IF ~choice.ok THEN [raised |-> TRUE, port |-> PyNone]
        ELSE IF 0 <= choice.val /\ choice.val < Len(cands)
             THEN [raised |-> FALSE, port |-> cands[choice.val + 1]]
             ELSE [raised |-> FALSE, port |-> cands[1]]

\* The port menu of detect_arm_port for the candidate list cands:
\* choice = int(Prompt.ask("Enter port number", default="1"))
select_port(cands, typed) ==
    LET choice == PyInt(PromptAsk(typed, <<"1">>))
    IN  IF ~choice.ok THEN [raised |-> TRUE, port |-> PyNone]
        ELSE IF 1 <= choice.val /\ choice.val <= Len(cands)
             THEN [raised |-> FALSE, port |-> cands[choice.val]]
             ELSE [raised |-> FALSE, port |-> cands[1]]

\* Mutant: every port listed after the prompt counts as new
new_ports_all(before, after) == after

\* new_ports = list(set(ports_after) - set(ports_before)), as a set
new_ports_of(before, after) == after \ before

\* Mutant: the difference taken the wrong way round
missing_ports_reversed(before, unplugged) == unplugged \ before

\* missing_ports = list(set(ports_before) - set(ports_unplugged)), as a set
missing_ports_of(before, unplugged) == before \ unplugged

\* detect_arm_port after the unplug prompt: ports_unplugged has been read
detect_after_unplug(before, after, unplugged) ==
    LET missing == missing_ports_of(before, unplugged)
    IN  IF Cardinality(missing) = 1
        THEN {DetectRun(before, after, unplugged, 3, <<"connect", "unplug", "replug">>,
                        NoList, NotAsked, CHOOSE p \in missing : TRUE, FALSE)}
        ELSE IF Cardinality(missing) = 0
        THEN {DetectRun(before, after, unplugged, 3, <<"connect", "unplug">>,
                        NoList, NotAsked, PyNone, FALSE)}
        ELSE {LET sel == select_port(menu, typed)
              IN  IF sel.raised
                  THEN DetectRun(before, after, unplugged, 3,
                                 <<"connect", "unplug", "menu">>,
                                 menu, typed, PyNone, TRUE)
                  ELSE DetectRun(before, after, unplugged, 3,
                                 <<"connect", "unplug", "menu", "replug">>,
                                 menu, typed, sel.port, FALSE)
              : menu \in ListOfSet(missing), typed \in Answers}

\* detect_arm_port after the connect prompt: ports_after has been read
detect_after_connect(before, after) ==
    LET new == new_ports_of(before, after)
    IN  IF Cardinality(new) = 1
        THEN {DetectRun(before, after, {}, 2, <<"connect">>, NoList, NotAsked,
                        CHOOSE p \in new : TRUE, FALSE)}
        ELSE IF Cardinality(new) = 0
        THEN IF Cardinality(before) > 0
             THEN UNION {detect_after_unplug(before, after, unplugged) :
                         unplugged \in Snapshots}
             ELSE {DetectRun(before, after, {}, 2, <<"connect">>, NoList, NotAsked,
                             PyNone, FALSE)}
        ELSE {LET sel == select_port(menu, typed)
              IN  DetectRun(before, after, {}, 2, <<"connect", "menu">>,
                            menu, typed, sel.port, sel.raised)
              : menu \in ListOfSet(new), typed \in Answers}

\* Every complete call of detect_arm_port(arm_type), over all port snapshots
\* and operator inputs.  The arm type only labels the messages.
detect_arm_port ==
    UNION {detect_after_connect(before, after) :
           before \in Snapshots, after \in Snapshots}

\* How a call of detect_arm_port can end, as its caller sees it
DetectResults == {[ret |-> r.ret, raised |-> r.raised] : r \in detect_arm_port}

(***************************************************************************)
(* The external robotics framework, as the wrappers see it.                *)
(***************************************************************************)
\* calibrate(...), device.setup_motors(): the call returns, or raises an
\* Exception
ExtOutcomes == {"returns", "raises"}
NotCalled == "not called"

\* get_robot_config_classes(robot_type) gives classes (TRUE) or (None, None)
get_robot_config_classes(robot_type) == robot_type \in {"so100", "so101"}

\* Mutant: the wrapper reports success whatever the external call did
calibrate_arm_always_true(lerobot_available, robot_type, ext) ==
    [ret |-> PyTrue, ext |-> ext]

\* calibrate_arm(arm_type, port, robot_type) of utils/lerobot_utils.py, with
\* the module flag LEROBOT_AVAILABLE and the outcome ext of calibrate(...)
calibrate_arm(lerobot_available, robot_type, ext) ==
    IF ~lerobot_available THEN [ret |-> PyFalse, ext |-> NotCalled]
    ELSE IF ~get_robot_config_classes(robot_type)
         THEN [ret |-> PyFalse, ext |-> NotCalled]
         ELSE IF ext = "returns" THEN [ret |-> PyTrue, ext |-> ext]
              ELSE [ret |-> PyFalse, ext |-> ext]

\* Mutant: the exception of the external call leaves the wrapper
setup_motors_for_arm_uncaught(lerobot_available, robot_type, ext) ==
    IF ~lerobot_available THEN [ret |-> PyFalse, ext |-> NotCalled]
    ELSE IF ~get_robot_config_classes(robot_type)
         THEN [ret |-> PyFalse, ext |-> NotCalled]
         ELSE IF ext = "returns" THEN [ret |-> PyTrue, ext |-> ext]
              ELSE [ret |-> "Exception", ext |-> ext]

\* setup_motors_for_arm(arm_type, port, robot_type) of utils/lerobot_utils.py,
\* with the outcome ext of make_device(...) and device.setup_motors()
setup_motors_for_arm(lerobot_available, robot_type, ext) ==
    IF ~lerobot_available THEN [ret |-> PyFalse, ext |-> NotCalled]
    ELSE IF ~get_robot_config_classes(robot_type)
         THEN [ret |-> PyFalse, ext |-> NotCalled]
         ELSE IF ext = "returns" THEN [ret |-> PyTrue, ext |-> ext]
              ELSE [ret |-> PyFalse, ext |-> ext]

\* calibrate_arm of commands/robots/lerobot/calibration.py: no availability
\* flag, the framework is imported at module level
calibrate_arm_cmd(robot_type, ext) ==
    IF ~get_robot_config_classes(robot_type)
    THEN [ret |-> PyFalse, ext |-> NotCalled]
    ELSE IF ext = "returns" THEN [ret |-> PyTrue, ext |-> ext]
         ELSE [ret |-> PyFalse, ext |-> ext]

\* setup_motors_for_arm of commands/robots/lerobot/calibration.py: no
\* availability flag
setup_motors_for_arm_cmd(robot_type, ext) ==
    IF ~get_robot_config_classes(robot_type)
    THEN [ret |-> PyFalse, ext |-> NotCalled]
    ELSE IF ext = "returns" THEN [ret |-> PyTrue, ext |-> ext]
         ELSE [ret |-> PyFalse, ext |-> ext]

\* Robot types a wrapper can be handed: the two supported ones and others
RobotTypes == {"so100", "so101", "koch", ""}

\* one call of a wrapper: its module, its arguments, the module flag, what
\* the external call would do, and the result
WrapperCall(fn, module, arm_type, port, robot_type, lerobot_available, ext, out) ==
    [fn |-> fn, module |-> module, arm_type |-> arm_type, port |-> port,
     robot_type |-> robot_type, lerobot_available |-> lerobot_available,
     ext |-> ext, out |-> out]

NoWrap ==
    WrapperCall("none", "none", "leader", "", "so100", FALSE, "returns",
                [ret |-> PyNone, ext |-> NotCalled])
WrapIdle == wrap = NoWrap

(***************************************************************************)
(* The orchestrators.  A run is the dict built so far, the log of the      *)
(* sub-steps called, each <<arm, step, result, external outcome>>, and     *)
(* whether the function has raised or returned.                            *)
(***************************************************************************)
Arms == {"leader", "follower"}
Key(arm, suffix) == arm \o suffix

OrchRun(dict, log, raised, returned) ==
    [dict |-> dict, log |-> log, raised |-> raised, returned |-> returned]

\* robot_choice = int(Prompt.ask("Enter robot type", default="1"))
\* robot_type = "so100" if robot_choice == 1 else "so101"
ask_robot_type(typed) ==
    LET robot_choice == PyInt(PromptAsk(typed, <<"1">>))
    IN  IF ~robot_choice.ok THEN [raised |-> TRUE, robot_type |-> PyNone]
        ELSE [raised |-> FALSE,
              robot_type |-> IF robot_choice.val = 1 THEN "so100" ELSE "so101"]

RobotTypeResults == {ask_robot_type(typed) : typed \in Answers}

\* The start of both orchestrators of utils/lerobot_utils.py: config = {},
\* the robot type prompt, config['robot_type'] = robot_type
orch_start ==
    {IF t.raised THEN OrchRun(EmptyDict, <<>>, TRUE, FALSE)
     ELSE OrchRun(DictSet(EmptyDict, "robot_type", t.robot_type), <<>>, FALSE, FALSE)
     : t \in RobotTypeResults}

DetectEntry(arm, d) ==
    <<arm, "detect", IF d.raised THEN "raised" ELSE d.ret, "-">>

\* Mutant: a failed port detection skips the arm and goes on
smc_no_port_continue(r, arm, d) ==
    OrchRun(r.dict, Append(r.log, DetectEntry(arm, d)), FALSE, FALSE)

\* setup_motors_and_calibration, "if not leader_port:" / "if not
\* follower_port:": print "Skipping setup." and return config
smc_no_port(r, arm, d) ==
    OrchRun(r.dict, Append(r.log, DetectEntry(arm, d)), FALSE, TRUE)

\* Mutant: a failed calibration returns config at once
smc_with_port_abort(lerobot_available, arm, r, d) ==
    {OrchRun(
        DictSet(DictSet(DictSet(r.dict, Key(arm, "_port"), d.ret),
                        Key(arm, "_motors_setup"), m.ret),
                Key(arm, "_calibrated"),
                IF c.ret = PyTrue THEN PyTrue ELSE PyFalse),
        r.log \o <<DetectEntry(arm, d),
                   <<arm, "motors", m.ret, m.ext>>,
                   <<arm, "calibrate", c.ret, c.ext>> >>,
        FALSE, c.ret # PyTrue)
     : m \in {setup_motors_for_arm(lerobot_available, r.dict["robot_type"], e)
              : e \in ExtOutcomes},
       c \in {calibrate_arm(lerobot_available, r.dict["robot_type"], e)
              : e \in ExtOutcomes}}

\* setup_motors_and_calibration with the arm's port d.ret detected: store the
\* port, set up the motors and store the result, calibrate and store True or
\* False; neither failure stops the function
smc_with_port(lerobot_available, arm, r, d) ==
    {OrchRun(
        DictSet(DictSet(DictSet(r.dict, Key(arm, "_port"), d.ret),
                        Key(arm, "_motors_setup"), m.ret),
                Key(arm, "_calibrated"),
                IF c.ret = PyTrue THEN PyTrue ELSE PyFalse),
        r.log \o <<DetectEntry(arm, d),
                   <<arm, "motors", m.ret, m.ext>>,
                   <<arm, "calibrate", c.ret, c.ext>> >>,
        FALSE, FALSE)
     : m \in {setup_motors_for_arm(lerobot_available, r.dict["robot_type"], e)
              : e \in ExtOutcomes},
       c \in {calibrate_arm(lerobot_available, r.dict["robot_type"], e)
              : e \in ExtOutcomes}}

\* One arm of setup_motors_and_calibration, from the run r so far
smc_arm(lerobot_available, arm, r) ==
    IF r.raised \/ r.returned THEN {r}
    ELSE UNION {
        IF d.raised
        THEN {OrchRun(r.dict, Append(r.log, DetectEntry(arm, d)), TRUE, FALSE)}
        ELSE IF ~Truthy(d.ret)
        THEN {smc_no_port(r, arm, d)}
        ELSE smc_with_port(lerobot_available, arm, r, d)
        : d \in DetectResults}

\* The final "return config"
orch_return(r) == IF r.raised THEN r ELSE [r EXCEPT !.returned = TRUE]

\* Every complete run of setup_motors_and_calibration()
setup_motors_and_calibration(lerobot_available) ==
    {orch_return(r2) :
     r2 \in UNION {smc_arm(lerobot_available, "follower", r1) :
                   r1 \in UNION {smc_arm(lerobot_available, "leader", r0) :
                                 r0 \in orch_start}}}

\* Mutant: a failed calibration stores no flag next to the port
cal_arm_flag_on_success(lerobot_available, arm, r) ==
    IF r.raised \/ r.returned THEN {r}
    ELSE UNION {
        IF d.raised
        THEN {OrchRun(r.dict, Append(r.log, DetectEntry(arm, d)), TRUE, FALSE)}
        ELSE IF ~Truthy(d.ret)
        THEN {OrchRun(r.dict, Append(r.log, DetectEntry(arm, d)), FALSE, TRUE)}
        ELSE {OrchRun(
                IF c.ret = PyTrue
                THEN DictSet(DictSet(r.dict, Key(arm, "_port"), d.ret),
                             Key(arm, "_calibrated"), PyTrue)
                ELSE DictSet(r.dict, Key(arm, "_port"), d.ret),
                r.log \o <<DetectEntry(arm, d),
                           <<arm, "calibrate", c.ret, c.ext>> >>,
                FALSE, FALSE)
              : c \in {calibrate_arm(lerobot_available, r.dict["robot_type"], e)
                       : e \in ExtOutcomes}}
        : d \in DetectResults}

\* One arm of calibration() of utils/lerobot_utils.py: detect the port
\* (return config if there is none), calibrate
cal_arm(lerobot_available, arm, r) ==
    IF r.raised \/ r.returned THEN {r}
    ELSE UNION {
        IF d.raised
        THEN {OrchRun(r.dict, Append(r.log, DetectEntry(arm, d)), TRUE, FALSE)}
        ELSE IF ~Truthy(d.ret)
        THEN {OrchRun(r.dict, Append(r.log, DetectEntry(arm, d)), FALSE, TRUE)}
        ELSE {OrchRun(
                DictSet(DictSet(r.dict, Key(arm, "_port"), d.ret),
                        Key(arm, "_calibrated"),
                        IF c.ret = PyTrue THEN PyTrue ELSE PyFalse),
                r.log \o <<DetectEntry(arm, d),
                           <<arm, "calibrate", c.ret, c.ext>> >>,
                FALSE, FALSE)
              : c \in {calibrate_arm(lerobot_available, r.dict["robot_type"], e)
                       : e \in ExtOutcomes}}
        : d \in DetectResults}

\* Every complete run of calibration() of utils/lerobot_utils.py
calibration(lerobot_available) ==
    {orch_return(r2) :
     r2 \in UNION {cal_arm(lerobot_available, "follower", r1) :
                   r1 \in UNION {cal_arm(lerobot_available, "leader", r0) :
                                 r0 \in orch_start}}}

\* Mutant: the arm is set up whatever arm_type selects
calibration_cmd_arm_unselective(arm, setup, reuse_all, existing_port, r) ==
    IF r.raised THEN {r}
    ELSE LET with_port(port, log) ==
                 {OrchRun(
                     DictSet(DictSet(r.dict, Key(arm, "_port"), port),
                             Key(arm, "_calibrated"),
                             IF c.ret = PyTrue THEN PyTrue ELSE PyFalse),
                     Append(log, <<arm, "calibrate", c.ret, c.ext>>),
                     FALSE, FALSE)
                  : c \in {calibrate_arm_cmd(r.dict["robot_type"], e)
                           : e \in ExtOutcomes}}
         IN  IF reuse_all /\ Truthy(existing_port)
             THEN with_port(existing_port, r.log)
             ELSE UNION {
                 IF d.raised
                 THEN {OrchRun(r.dict, Append(r.log, DetectEntry(arm, d)), TRUE, FALSE)}
                 ELSE IF ~Truthy(d.ret)
                 THEN {OrchRun(r.dict, Append(r.log, DetectEntry(arm, d)), FALSE, FALSE)}
                 ELSE with_port(d.ret, Append(r.log, DetectEntry(arm, d)))
                 : d \in DetectResults}

\* One arm of calibration(main_config, arm_type) of
\* commands/robots/lerobot/calibration.py: reuse the stored port or detect
\* one; without a port the arm is skipped, with one it is calibrated
calibration_cmd_arm(arm, setup, reuse_all, existing_port, r) ==
    IF r.raised \/ ~setup THEN {r}
    ELSE LET with_port(port, log) ==
                 {OrchRun(
                     DictSet(DictSet(r.dict, Key(arm, "_port"), port),
                             Key(arm, "_calibrated"),
                             IF c.ret = PyTrue THEN PyTrue ELSE PyFalse),
                     Append(log, <<arm, "calibrate", c.ret, c.ext>>),
                     FALSE, FALSE)
                  : c \in {calibrate_arm_cmd(r.dict["robot_type"], e)
                           : e \in ExtOutcomes}}
         IN  IF reuse_all /\ Truthy(existing_port)
             THEN with_port(existing_port, r.log)
             ELSE UNION {
                 IF d.raised
                 THEN {OrchRun(r.dict, Append(r.log, DetectEntry(arm, d)), TRUE, FALSE)}
                 ELSE IF ~Truthy(d.ret)
                 THEN {OrchRun(r.dict, Append(r.log, DetectEntry(arm, d)), FALSE, FALSE)}
                 ELSE with_port(d.ret, Append(r.log, DetectEntry(arm, d)))
                 : d \in DetectResults}

ArmTypes == {"leader", "follower", PyNone}

\* Every complete run of calibration(main_config, arm_type) of
\* commands/robots/lerobot/calibration.py
calibration_cmd(main_config, arm_type) ==
    LET lerobot_config ==
            IF main_config # EmptyDict
            THEN GetOr(main_config, "lerobot", EmptyDict) ELSE EmptyDict
        existing_robot_type == Get(lerobot_config, "robot_type")
        existing_leader_port == Get(lerobot_config, "leader_port")
        existing_follower_port == Get(lerobot_config, "follower_port")
        \* Confirm.ask("Use these settings?") is asked only if one exists
        reuse_answers ==
            IF Truthy(existing_robot_type) \/ Truthy(existing_leader_port)
               \/ Truthy(existing_follower_port)
            THEN BOOLEAN ELSE {FALSE}
        start(reuse_all) ==
            IF reuse_all /\ Truthy(existing_robot_type)
            THEN {OrchRun(DictSet(EmptyDict, "robot_type", existing_robot_type),
                          <<>>, FALSE, FALSE)}
            ELSE orch_start
        setup_leader == arm_type # "follower"
        setup_follower == arm_type # "leader"
    IN  UNION {
          {orch_return(r2) :
           r2 \in UNION {calibration_cmd_arm("follower", setup_follower, reuse_all,
                                             existing_follower_port, r1) :
                         r1 \in UNION {calibration_cmd_arm("leader", setup_leader,
                                                           reuse_all,
                                                           existing_leader_port, r0) :
                                       r0 \in start(reuse_all)}}}
          : reuse_all \in reuse_answers}

(***************************************************************************)
(* The Session Configuration: a dict of sections, each a dict.             *)
(***************************************************************************)
\* Configurations that earlier commands leave in the file: none, a server
\* set up by another command with the cached hardware probe, arms calibrated
\* by an earlier run, and an earlier run whose follower calibration failed
SessionConfigs ==
    {EmptyDict,
     [server |-> [type |-> "ollama", default_port |-> "5070"],
      system_info |-> [os |-> "Linux", cpu_model |-> "x86_64"]],
     [lerobot |-> [robot_type |-> "so101",
                   leader_port |-> PortNames[1], leader_calibrated |-> PyTrue,
                   follower_port |-> PortNames[2], follower_calibrated |-> PyTrue],
      server |-> [type |-> "lerobot", default_port |-> "5070"]],
     [lerobot |-> [robot_type |-> "so100",
                   leader_port |-> PortNames[2], leader_motors_setup |-> PyTrue,
                   leader_calibrated |-> PyTrue,
                   follower_port |-> PortNames[1], follower_motors_setup |-> PyFalse,
                   follower_calibrated |-> PyFalse],
      server |-> [type |-> "lerobot"],
      system_info |-> [os |-> "Linux", cpu_model |-> "x86_64"]]}

(***************************************************************************)
(* check_calibration_success: the messages it prints.                      *)
(***************************************************************************)
MsgSuccess == "Arms calibrated successfully!"
MsgMotorsOk == "Motor IDs have been set up for both arms."
MsgMotorsFailed == "Some motor setups may have failed, but calibration completed."
MsgTeleopHint == "You can now run 'solo robo --type lerobot --teleop' to start teleoperation."
MsgPartial == "Calibration partially completed."
MsgRetry == "You can run 'solo robo --type lerobot --calibrate' again to retry."

\* Mutant: an arm counts as configured on its calibrated flag alone
check_calibration_success_flag_only(arm_config, setup_motors) ==
    LET leader_configured == Get(arm_config, "leader_calibrated")
        follower_configured == Get(arm_config, "follower_calibrated")
    IN  IF Truthy(PyAnd(leader_configured, follower_configured))
        THEN <<MsgSuccess, MsgTeleopHint>>
        ELSE <<MsgPartial, MsgRetry>>

\* check_calibration_success(arm_config, setup_motors)
check_calibration_success(arm_config, setup_motors) ==
    LET leader_configured ==
            PyAnd(Get(arm_config, "leader_port"), Get(arm_config, "leader_calibrated"))
        follower_configured ==
            PyAnd(Get(arm_config, "follower_port"), Get(arm_config, "follower_calibrated"))
        leader_motors == GetOr(arm_config, "leader_motors_setup", PyFalse)
        follower_motors == GetOr(arm_config, "follower_motors_setup", PyFalse)
    IN  IF Truthy(PyAnd(leader_configured, follower_configured))
        THEN <<MsgSuccess>>
             \o (IF setup_motors
                 THEN IF Truthy(PyAnd(leader_motors, follower_motors))
                      THEN <<MsgMotorsOk>> ELSE <<MsgMotorsFailed>>
                 ELSE <<>>)
             \o <<MsgTeleopHint>>
        ELSE <<MsgPartial, MsgRetry>>

\* Arm configurations handed to check_calibration_success: every key may be
\* missing; a port is a device path or empty, a flag is True or False
Absent == "<absent>"
DictOf(choices) ==
    [k \in {x \in DOMAIN choices : choices[x] # Absent} |-> choices[k]]

ArmConfigs ==
    {DictOf([leader_port |-> lp, leader_calibrated |-> lc,
             follower_port |-> fp, follower_calibrated |-> fc,
             leader_motors_setup |-> lm, follower_motors_setup |-> fm]) :
     lp \in Ports \cup {"", Absent}, fp \in Ports \cup {"", Absent},
     lc \in {PyTrue, PyFalse, Absent}, fc \in {PyTrue, PyFalse, Absent},
     lm \in {PyTrue, PyFalse, Absent}, fm \in {PyTrue, PyFalse, Absent}}

CheckCall(arm_config, setup_motors, out) ==
    [arm_config |-> arm_config, setup_motors |-> setup_motors, out |-> out]

NoCheck == CheckCall(EmptyDict, FALSE, <<>>)

(***************************************************************************)
(* The Session Configuration file: json.dump and json.load.                *)
(***************************************************************************)
\* The str values the configuration can hold
PyStrings ==
    Ports \cup {"", "so100", "so101", "lerobot", "ollama", "5070", "Linux", "x86_64",
                "hf_abc", "hf_xyz"}
PyScalars == {PyTrue, PyFalse, PyNone} \cup PyStrings

\* json.dump of a scalar: true, false, null, or the str in double quotes
JsonDumpScalar(v) ==
    IF v = PyTrue THEN "true"
    ELSE IF v = PyFalse THEN "false"
    ELSE IF v = PyNone THEN "null"
    ELSE "\"" \o v \o "\""

\* json.load of a scalar: the Python value whose JSON text this is
JsonLoadScalar(t) == CHOOSE v \in PyScalars : JsonDumpScalar(v) = t

\* json.dump(config, f, indent=4) and json.load(f) of a dict of sections
JsonDump(cfg) ==
    [sec \in DOMAIN cfg |-> [k \in DOMAIN cfg[sec] |-> JsonDumpScalar(cfg[sec][k])]]
JsonLoad(doc) ==
    [sec \in DOMAIN doc |-> [k \in DOMAIN doc[sec] |-> JsonLoadScalar(doc[sec][k])]]

NoFile == [state |-> "absent", doc |-> EmptyDict]
\* a file whose content json.load rejects with JSONDecodeError
InvalidFile == [state |-> "invalid", doc |-> EmptyDict]

\* with open(CONFIG_PATH, 'w') as f: json.dump(config, f, indent=4)
write_config(cfg) == [state |-> "valid", doc |-> JsonDump(cfg)]

\* robo(): config = {}; if the file exists, config = json.load(f), and {}
\* again on JSONDecodeError
robo_load(f) == IF f.state = "valid" THEN JsonLoad(f.doc) ELSE EmptyDict

\* Mutant: the section is created empty when missing and updated only
\* when it was there
save_lerobot_config_else_update(cfg, arm_config) ==
    LET c1 == IF "lerobot" \notin DOMAIN cfg
              THEN DictSet(cfg, "lerobot", EmptyDict)
              ELSE DictSet(cfg, "lerobot", DictUpdate(cfg["lerobot"], arm_config))
        c2 == IF "server" \notin DOMAIN c1 THEN DictSet(c1, "server", EmptyDict) ELSE c1
    IN  DictSet(c2, "server", DictSet(c2["server"], "type", "lerobot"))

\* save_lerobot_config(config, arm_config): the config it leaves in memory
\* and writes
save_lerobot_config(cfg, arm_config) ==
    LET c1 == IF "lerobot" \notin DOMAIN cfg THEN DictSet(cfg, "lerobot", EmptyDict) ELSE cfg
        c2 == DictSet(c1, "lerobot", DictUpdate(c1["lerobot"], arm_config))
        c3 == IF "server" \notin DOMAIN c2 THEN DictSet(c2, "server", EmptyDict) ELSE c2
    IN  DictSet(c3, "server", DictSet(c3["server"], "type", "lerobot"))

\* Mutant: the lerobot section is replaced by arm_config
calibration_mode_save_replace(cfg, arm_config) ==
    LET c2 == DictSet(cfg, "lerobot", arm_config)
        c3 == IF "server" \notin DOMAIN c2 THEN DictSet(c2, "server", EmptyDict) ELSE c2
    IN  DictSet(c3, "server", DictSet(c3["server"], "type", "lerobot"))

\* calibration_mode, "# Save configuration": the same merge, inline
calibration_mode_save(cfg, arm_config) ==
    LET c1 == IF "lerobot" \notin DOMAIN cfg THEN DictSet(cfg, "lerobot", EmptyDict) ELSE cfg
        c2 == DictSet(c1, "lerobot", DictUpdate(c1["lerobot"], arm_config))
        c3 == IF "server" \notin DOMAIN c2 THEN DictSet(c2, "server", EmptyDict) ELSE c2
    IN  DictSet(c3, "server", DictSet(c3["server"], "type", "lerobot"))

\* Mutant: setup_mode writes the config as it was loaded
setup_mode_save_unmerged(cfg, arm_config) == cfg

\* setup_mode, "# Save configuration": the same merge, inline
setup_mode_save(cfg, arm_config) ==
    LET c1 == IF "lerobot" \notin DOMAIN cfg THEN DictSet(cfg, "lerobot", EmptyDict) ELSE cfg
        c2 == DictSet(c1, "lerobot", DictUpdate(c1["lerobot"], arm_config))
        c3 == IF "server" \notin DOMAIN c2 THEN DictSet(c2, "server", EmptyDict) ELSE c2
    IN  DictSet(c3, "server", DictSet(c3["server"], "type", "lerobot"))

(***************************************************************************)
(* Teleoperation as started by setup_mode, with a camera_config given.     *)
(***************************************************************************)
\* teleoperate(...): returns, is stopped with Ctrl-C, or raises an Exception
TeleopOutcomes == {"returns", "KeyboardInterrupt", "raises"}

\* Mutant: a Ctrl-C during teleoperate(...) counts as a failure
teleoperation_interrupt_fails(lerobot_available, robot_type, ext) ==
    IF ~lerobot_available THEN [ret |-> PyFalse, ext |-> NotCalled]
    ELSE IF ~get_robot_config_classes(robot_type)
         THEN [ret |-> PyFalse, ext |-> NotCalled]
         ELSE IF ext = "returns" THEN [ret |-> PyTrue, ext |-> ext]
              ELSE [ret |-> PyFalse, ext |-> ext]

\* teleoperation(leader_port, follower_port, robot_type, camera_config) with
\* camera_config not None
teleoperation(lerobot_available, robot_type, ext) ==
    IF ~lerobot_available THEN [ret |-> PyFalse, ext |-> NotCalled]
    ELSE IF ~get_robot_config_classes(robot_type)
         THEN [ret |-> PyFalse, ext |-> NotCalled]
         ELSE IF ext \in {"returns", "KeyboardInterrupt"}
              THEN [ret |-> PyTrue, ext |-> ext]
              ELSE [ret |-> PyFalse, ext |-> ext]

NoTeleop == [ret |-> PyNone, ext |-> NotCalled]

\* setup_mode after the save: teleoperation only if both arms are configured
setup_mode_teleop(lerobot_available, arm_config) ==
    LET leader_configured ==
            PyAnd(Get(arm_config, "leader_port"), Get(arm_config, "leader_calibrated"))
        follower_configured ==
            PyAnd(Get(arm_config, "follower_port"), Get(arm_config, "follower_calibrated"))
    IN  IF Truthy(PyAnd(leader_configured, follower_configured))
        THEN {teleoperation(lerobot_available,
                            GetOr(arm_config, "robot_type", "so100"), e)
              : e \in TeleopOutcomes}
        ELSE {NoTeleop}

(***************************************************************************)
(* One invocation of the robo command: what it loaded, what the            *)
(* orchestrator did, how often the configuration was written, the file     *)
(* content after the first write, the report and the teleoperation result. *)
(***************************************************************************)
\* the arms whose external calibrate(...) call returned without an error
ExternallyCalibrated(log) ==
    {arm \in Arms : \E i \in 1..Len(log) :
        log[i][1] = arm /\ log[i][2] = "calibrate" /\ log[i][4] = "returns"}

Invocation(mode, loaded, run, saves, first_doc, report, teleop) ==
    [mode |-> mode, loaded |-> loaded, arm_config |-> run.dict,
     calibrated |-> ExternallyCalibrated(run.log), raised |-> run.raised,
     saves |-> saves, first_doc |-> first_doc, report |-> report,
     teleop |-> teleop]

NoInvocation ==
    Invocation("none", EmptyDict, OrchRun(EmptyDict, <<>>, FALSE, FALSE), 0,
               EmptyDict, <<>>, NoTeleop)

(***************************************************************************)
(* The consumers of the Session Configuration: teleop_mode,                *)
(* recording_mode, inference_mode, and the last step of setup_mode.  Each  *)
(* gives the outcome of the external call, "not called" if it was not      *)
(* made, the last message it prints, and whether an exception left it.     *)
(***************************************************************************)
MsgTeleopCompleted == "Teleoperation completed."
MsgTeleopFailed == "Teleoperation failed."
MsgNotCalibrated == "Arms are not properly calibrated."
MsgFollowerNotCalibrated == "Follower arm is not properly calibrated."
MsgNoLogin == "Cannot proceed without HuggingFace authentication."
MsgImportError == "Error importing lerobot recording components"
MsgRecordingCompleted == "Recording completed!"
MsgRecordingStopped == "Recording stopped by user."
MsgRecordingFailed == "Recording failed"
MsgInferenceCompleted == "Inference completed successfully!"
MsgInferenceStopped == "Inference stopped by user."
MsgInferenceFailed == "Inference failed"
MsgSetupCompleted == "Full LeRobot setup completed successfully!"
MsgSetupTeleopFailed == "Setup completed but teleoperation failed."
MsgSkippingTeleop == "Calibration failed. Skipping teleoperation."
ValueError == "ValueError"

SuccessMessages ==
    {MsgTeleopCompleted, MsgRecordingCompleted, MsgInferenceCompleted,
     MsgSetupCompleted, MsgSuccess}

Consumed(ext, msg, raised) == [ext |-> ext, msg |-> msg, raised |-> raised]

\* validate_lerobot_config(config), and the same five lines of teleop_mode
validate_lerobot_config(cfg) ==
    LET lerobot_config == GetOr(cfg, "lerobot", EmptyDict)
    IN  [leader_port |-> Get(lerobot_config, "leader_port"),
         follower_port |-> Get(lerobot_config, "follower_port"),
         leader_calibrated |-> GetOr(lerobot_config, "leader_calibrated", PyFalse),
         follower_calibrated |-> GetOr(lerobot_config, "follower_calibrated", PyFalse),
         robot_type |-> GetOr(lerobot_config, "robot_type", "so100")]

\* teleoperation(leader_port, follower_port, robot_type, None): the operator
\* is asked whether to set up cameras; without them camera_config stays None
\* and create_follower_config fails inside the try block
teleoperation_ask_cameras(lerobot_available, robot_type, use_camera, ext) ==
    IF ~lerobot_available THEN [ret |-> PyFalse, ext |-> NotCalled]
    ELSE IF ~get_robot_config_classes(robot_type)
         THEN [ret |-> PyFalse, ext |-> NotCalled]
         ELSE IF ~use_camera THEN [ret |-> PyFalse, ext |-> NotCalled]
              ELSE IF ext \in {"returns", "KeyboardInterrupt"}
                   THEN [ret |-> PyTrue, ext |-> ext]
                   ELSE [ret |-> PyFalse, ext |-> ext]

\* Mutant: the gate looks at the calibrated flags only
teleop_mode_flags_only(lerobot_available, cfg, use_camera, ext) ==
    LET v == validate_lerobot_config(cfg)
    IN  IF Truthy(PyAnd(v.leader_calibrated, v.follower_calibrated))
        THEN LET t == teleoperation_ask_cameras(lerobot_available, v.robot_type,
                                                use_camera, ext)
             IN  Consumed(t.ext,
                          IF Truthy(t.ret) THEN MsgTeleopCompleted ELSE MsgTeleopFailed,
                          FALSE)
        ELSE Consumed(NotCalled, MsgNotCalibrated, FALSE)

\* teleop_mode(config)
teleop_mode(lerobot_available, cfg, use_camera, ext) ==
    LET v == validate_lerobot_config(cfg)
    IN  IF Truthy(PyAnd(PyAnd(PyAnd(v.leader_port, v.follower_port),
                              v.leader_calibrated), v.follower_calibrated))
        THEN LET t == teleoperation_ask_cameras(lerobot_available, v.robot_type,
                                                use_camera, ext)
             IN  Consumed(t.ext,
                          IF Truthy(t.ret) THEN MsgTeleopCompleted ELSE MsgTeleopFailed,
                          FALSE)
        ELSE Consumed(NotCalled, MsgNotCalibrated, FALSE)

\* What the operator and the environment give recording_mode and
\* inference_mode after the gate: the login result, whether float(...) and
\* int(...) accept the typed numbers, whether lerobot.record imports
SessionInputs ==
    [login_success : BOOLEAN, numbers_ok : BOOLEAN, import_ok : BOOLEAN]

\* recording_mode(config)
recording_mode(cfg, in, ext) ==
    LET v == validate_lerobot_config(cfg)
    IN  IF ~Truthy(PyAnd(PyAnd(PyAnd(v.leader_port, v.follower_port),
                               v.leader_calibrated), v.follower_calibrated))
        THEN Consumed(NotCalled, MsgNotCalibrated, FALSE)
        ELSE IF ~in.login_success THEN Consumed(NotCalled, MsgNoLogin, FALSE)
        ELSE IF ~in.numbers_ok THEN Consumed(NotCalled, ValueError, TRUE)
        ELSE IF ~in.import_ok THEN Consumed(NotCalled, MsgImportError, FALSE)
        ELSE IF ext = "returns" THEN Consumed(ext, MsgRecordingCompleted, FALSE)
        ELSE IF ext = "KeyboardInterrupt" THEN Consumed(ext, MsgRecordingStopped, FALSE)
        ELSE Consumed(ext, MsgRecordingFailed, FALSE)

\* inference_mode(config): the gate is on the follower alone
inference_mode(cfg, in, ext) ==
    LET v == validate_lerobot_config(cfg)
    IN  IF ~Truthy(PyAnd(v.follower_port, v.follower_calibrated))
        THEN Consumed(NotCalled, MsgFollowerNotCalibrated, FALSE)
        ELSE IF ~in.login_success THEN Consumed(NotCalled, MsgNoLogin, FALSE)
        ELSE IF ~in.numbers_ok THEN Consumed(NotCalled, ValueError, TRUE)
        ELSE IF ~in.import_ok THEN Consumed(NotCalled, MsgImportError, FALSE)
        ELSE IF ext = "returns" THEN Consumed(ext, MsgInferenceCompleted, FALSE)
        ELSE IF ext = "KeyboardInterrupt" THEN Consumed(ext, MsgInferenceStopped, FALSE)
        ELSE Consumed(ext, MsgInferenceFailed, FALSE)

\* setup_mode, "# Step 3: Teleoperation (if calibration successful)"
setup_mode_step3(lerobot_available, arm_config, ext) ==
    LET leader_configured ==
            PyAnd(Get(arm_config, "leader_port"), Get(arm_config, "leader_calibrated"))
        follower_configured ==
            PyAnd(Get(arm_config, "follower_port"), Get(arm_config, "follower_calibrated"))
    IN  IF Truthy(PyAnd(leader_configured, follower_configured))
        THEN LET t == teleoperation(lerobot_available,
                                    GetOr(arm_config, "robot_type", "so100"), ext)
             IN  Consumed(t.ext,
                          IF Truthy(t.ret) THEN MsgSetupCompleted ELSE MsgSetupTeleopFailed,
                          FALSE)
        ELSE Consumed(NotCalled, MsgSkippingTeleop, FALSE)

\* The lerobot sections handed to the consumers: ArmConfigs without the motor
\* keys, a port also null
LerobotSections ==
    {DictOf([leader_port |-> lp, leader_calibrated |-> lc,
             follower_port |-> fp, follower_calibrated |-> fc]) :
     lp \in {PortNames[1], "", PyNone, Absent}, fp \in {PortNames[2], "", PyNone, Absent},
     lc \in {PyTrue, PyFalse, Absent}, fc \in {PyTrue, PyFalse, Absent}}

\* Whether LEROBOT_AVAILABLE is set, and the answer at "Would you like to
\* setup cameras?"
Given(lerobot_available, use_camera) ==
    [lerobot_available |-> lerobot_available, use_camera |-> use_camera]
NoGiven == Given(FALSE, FALSE)
Use(consumer, lerobot, out) ==
    [consumer |-> consumer, lerobot |-> lerobot, out |-> out, given |-> NoGiven]
NoUse == Use("none", EmptyDict, Consumed(NotCalled, "", FALSE))

(***************************************************************************)
(* The mode dispatcher: robo and handle_lerobot.  A dispatch is the        *)
(* exception that ended it, "none" if it returned, and the mode handlers   *)
(* it called, in order.                                                    *)
(***************************************************************************)
Flags == {"calibrate", "teleop", "record", "train", "inference"}
\* the truth values of the five options of robo
FlagSettings == [Flags -> BOOLEAN]
RoboticsType == {"lerobot", "groot"}

Dispatched(raised, modes) == [raised |-> raised, modes |-> modes]

\* handle_lerobot(config, calibrate, teleop, record) called with config and
\* the further positional arguments args: a call that does not bind exactly
\* the three parameters after config is a TypeError
handle_lerobot(cfg, args, lerobot_installed) ==
    IF Len(args) # 3 THEN Dispatched("TypeError", <<>>)
    ELSE IF ~lerobot_installed THEN Dispatched("none", <<>>)
    ELSE IF args[3] THEN Dispatched("none", <<"recording_mode">>)
    ELSE IF args[2] THEN Dispatched("none", <<"teleop_mode">>)
    ELSE IF args[1] THEN Dispatched("none", <<"calibration_mode">>)
    ELSE Dispatched("none", <<"setup_mode">>)

\* robo(type, calibrate, teleop, record, train, inference) on the file f:
\* the lerobot type goes to handle_lerobot with all five flags; any other
\* type reaches RoboticsType.NVIDIA_GROOT, which the enum does not have
robo(type, flags, f, lerobot_installed) ==
    LET cfg == robo_load(f)
    IN  IF type = "lerobot"
        THEN handle_lerobot(cfg, <<flags["calibrate"], flags["teleop"], flags["record"],
                                   flags["train"], flags["inference"]>>,
                            lerobot_installed)
        ELSE Dispatched("AttributeError", <<>>)

\* one dispatch: the function called, the type and flags given, the config
\* robo loaded, and the outcome
Dispatch(fn, type, flags, cfg, out) ==
    [fn |-> fn, type |-> type, flags |-> flags, config |-> cfg, out |-> out]
NoDispatch ==
    Dispatch("none", "lerobot", [x \in Flags |-> FALSE], EmptyDict,
             Dispatched("none", <<>>))
DispIdle == disp = NoDispatch

(***************************************************************************)
(* Camera discovery: the module's import block, find_cameras_by_type and   *)
(* find_available_cameras.                                                 *)
(***************************************************************************)
\* Which of the imports of the module's try block succeed: the lerobot core
\* modules, the OpenCV camera modules, the RealSense camera modules
ModuleImports == [lerobot : BOOLEAN, opencv : BOOLEAN, realsense : BOOLEAN]

\* CAMERAS_AVAILABLE: True if every import of the block succeeded, False if
\* any raised ImportError
CAMERAS_AVAILABLE(m) == m.lerobot /\ m.opencv /\ m.realsense

Camera(type, id) == [type |-> type, id |-> id]
CameraList(type, n) == [i \in 1..n |-> Camera(type, i - 1)]

\* What a backend does when searched: its library (cv2, pyrealsense2) fails
\* to import, camera_class.find_cameras() raises, or it returns a list
BackendOutcomes(type) ==
    {[kind |-> "ImportError", cameras |-> <<>>], [kind |-> "Exception", cameras |-> <<>>]}
    \cup {[kind |-> "found", cameras |-> CameraList(type, n)] : n \in 0..MaxCameras}

\* find_cameras_by_type(camera_class, camera_type_name): every error gives []
find_cameras_by_type(camera_type_name, outcome) ==
    IF camera_type_name = "RealSense"
    THEN IF outcome.kind = "ImportError" THEN <<>>
         ELSE IF outcome.kind = "Exception" THEN <<>>
         ELSE outcome.cameras
    ELSE IF camera_type_name = "OpenCV"
    THEN IF outcome.kind \in {"ImportError", "Exception"} THEN <<>>
         ELSE outcome.cameras
    ELSE IF outcome.kind = "ImportError" THEN <<>>
         ELSE IF outcome.kind = "Exception" THEN <<>>
         ELSE outcome.cameras

CamerasFound(cameras, raised, searched) ==
    [cameras |-> cameras, raised |-> raised, searched |-> searched]

\* Mutant: an ImportError of either backend ends the search
find_available_cameras_import_fatal(m, opencv, realsense) ==
    IF ~CAMERAS_AVAILABLE(m) THEN CamerasFound(<<>>, FALSE, {})
    ELSE IF opencv.kind = "ImportError" \/ realsense.kind = "ImportError"
         THEN CamerasFound(<<>>, TRUE, {"OpenCV", "RealSense"})
         ELSE CamerasFound(find_cameras_by_type("OpenCV", opencv)
                              \o find_cameras_by_type("RealSense", realsense),
                           FALSE, {"OpenCV", "RealSense"})

\* find_available_cameras(): nothing is searched without CAMERAS_AVAILABLE,
\* else the OpenCV cameras followed by the RealSense cameras
find_available_cameras(m, opencv, realsense) ==
    IF ~CAMERAS_AVAILABLE(m) THEN CamerasFound(<<>>, FALSE, {})
    ELSE CamerasFound(find_cameras_by_type("OpenCV", opencv)
                         \o find_cameras_by_type("RealSense", realsense),
                      FALSE, {"OpenCV", "RealSense"})

CamerasCall(called, m, opencv, realsense, out) ==
    [called |-> called, imports |-> m, opencv |-> opencv, realsense |-> realsense,
     out |-> out]
NoCameras ==
    CamerasCall(FALSE, [lerobot |-> FALSE, opencv |-> FALSE, realsense |-> FALSE],
                [kind |-> "found", cameras |-> <<>>],
                [kind |-> "found", cameras |-> <<>>], CamerasFound(<<>>, FALSE, {}))
CamsIdle == cams = NoCameras

(***************************************************************************)
(* setup_camera_mapping: the angle prompts and the selection loop.         *)
(***************************************************************************)
\* what the operator can type at "Select cameras"
SelectionChars == {"0", "1", "2", ",", " ", "x"}
Selections == SeqsUpTo(SelectionChars, MaxSelectionLen)

RECURSIVE StripLeft(_)
StripLeft(s) == IF s # <<>> /\ s[1] = " " THEN StripLeft(Tail(s)) ELSE s
RECURSIVE StripRight(_)
StripRight(s) ==
    IF s # <<>> /\ s[Len(s)] = " " THEN StripRight(SubSeq(s, 1, Len(s) - 1)) ELSE s
\* str.strip()
Strip(s) == StripRight(StripLeft(s))

\* str.split(sep): the pieces between the separators, empty ones included
RECURSIVE SplitOn(_, _)
SplitOn(s, sep) ==
    IF \A i \in 1..Len(s) : s[i] # sep THEN <<s>>
    ELSE LET i == CHOOSE j \in 1..Len(s) :
                      s[j] = sep /\ \A k \in 1..(j - 1) : s[k] # sep
         IN  <<SubSeq(s, 1, i - 1)>> \o SplitOn(SubSeq(s, i + 1, Len(s)), sep)

\* str.split(): the pieces between runs of whitespace, none of them empty
SplitWhitespace(s) == SelectSeq(SplitOn(s, " "), LAMBDA t : t # <<>>)

\* [int(x.strip()) for x in ...]: the numbers, or ValueError
IntsOf(pieces) ==
    IF \A i \in 1..Len(pieces) : PyInt(Strip(pieces[i])).ok
    THEN [ok |-> TRUE, nums |-> [i \in 1..Len(pieces) |-> PyInt(Strip(pieces[i])).val]]
    ELSE [ok |-> FALSE, nums |-> <<>>]

\* Prompt.ask("Select cameras", default="0"): the line stripped, the default
\* for an empty one; then the parse of the selection
parse_selection(typed) ==
    LET selection == PromptAsk(Strip(typed), <<"0">>)
    IN  IF \E i \in 1..Len(selection) : selection[i] = ","
        THEN IntsOf(SplitOn(selection, ","))
        ELSE IntsOf(SplitWhitespace(selection))

\* Mutant: one number out of range invalidates the whole selection
valid_cameras_all_or_none(selected_cameras, n) ==
    IF \A i \in 1..Len(selected_cameras) :
          0 <= selected_cameras[i] /\ selected_cameras[i] < n
    THEN selected_cameras
    ELSE <<>>

\* "# Validate selection": the numbers cam_num with 0 <= cam_num < len(cameras)
valid_cameras_of(selected_cameras, n) ==
    SelectSeq(selected_cameras, LAMBDA c : 0 <= c /\ c < n)

\* what the operator can type as a viewing angle, and angle.lower()
AngleInputs == {"", "Top"}
Lower(a) == IF a = "Top" THEN "top" ELSE a
AngleOf(typed) == Lower(IF typed = "" THEN "front" ELSE typed)

\* the returned configuration: {} or {'enabled': True, 'cameras': [...]},
\* each camera by its index in the list and its angle
CameraConfig(kind, cameras) == [kind |-> kind, cameras |-> cameras]
SelectedCamera(index, angle) == [index |-> index, angle |-> angle]

Mapping(pc, n, angles, attempts, typed, said, ret) ==
    [pc |-> pc, n |-> n, angles |-> angles, attempts |-> attempts,
     typed |-> typed, said |-> said, ret |-> ret]
NoMapping == Mapping("idle", 0, <<>>, 0, <<>>, "", CameraConfig("none", <<>>))
SelIdle == cmap = NoMapping

(***************************************************************************)
(* Two commands on one configuration file: "solo robo --calibrate" and the *)
(* hardware probe display_hardware_info.  Each opens, reads and closes     *)
(* the file, works on its own copy, and later opens and writes the file;   *)
(* neither takes a lock.                                                   *)
(***************************************************************************)
\* detect_hardware() on this machine, as display_hardware_info stores it
SystemInfo == [os |-> "Linux", cpu_model |-> "x86_64"]

Loaded(raised, cfg) == [raised |-> raised, config |-> cfg]
JSONDecodeError == "JSONDecodeError"

\* Mutant: a file json.load rejects is read as an empty config
json_load_lenient(f) ==
    Loaded("none", IF f.state = "valid" THEN JsonLoad(f.doc) ELSE EmptyDict)

\* json.load(f) of a file that exists, not under any try
json_load(f) ==
    IF f.state = "valid" THEN Loaded("none", JsonLoad(f.doc))
    ELSE Loaded(JSONDecodeError, EmptyDict)

\* display_hardware_info, "# Check if system info exists in config file":
\* "shown" when the cached probe is printed and the function returns
display_hardware_info_cached(f) ==
    IF f.state = "absent" THEN "detect"
    ELSE LET l == json_load(f)
         IN  IF l.raised # "none" THEN l.raised
             ELSE IF "system_info" \in DOMAIN l.config
                     /\ DOMAIN l.config["system_info"] # {}
                  THEN "shown"
                  ELSE "detect"

\* display_hardware_info, "# Read existing config if it exists"
display_hardware_info_read(f) ==
    IF f.state = "absent" THEN Loaded("none", EmptyDict) ELSE json_load(f)

\* Mutant: the probe writes its own section and nothing else
set_system_info_alone(cfg, system_info) == DictSet(EmptyDict, "system_info", system_info)

\* config['system_info'] = system_info
set_system_info(cfg, system_info) == DictSet(cfg, "system_info", system_info)

\* Where each command is, the copy of the config it holds, and the order
\* in which the file was written
Race(calib, probe, writes) == [calib |-> calib, probe |-> probe, writes |-> writes]
Command(pc, cfg, arm_config) == [pc |-> pc, config |-> cfg, arm_config |-> arm_config]
NoRace ==
    Race(Command("start", EmptyDict, EmptyDict), Command("start", EmptyDict, EmptyDict), <<>>)
RaceIdle == race = NoRace

(***************************************************************************)
(* The places that load the configuration file, each run to its return or  *)
(* to the exception that leaves it.                                        *)
(***************************************************************************)
\* The outcome of one command on the file: the exception that left it or
\* "none", the config it holds, the json.load calls it made, the file after
Outcome(raised, cfg, loads, f) ==
    [raised |-> raised, config |-> cfg, loads |-> loads, file |-> f]

\* robo(): "# Load existing config", under try/except JSONDecodeError
robo_loaded(f) ==
    Outcome("none", robo_load(f), IF f.state = "absent" THEN 0 ELSE 1, f)

\* display_hardware_info(typer)
display_hardware_info(f) ==
    LET cached == display_hardware_info_cached(f)
        l == display_hardware_info_read(f)
        saved == set_system_info(l.config, SystemInfo)
    IN  IF cached = JSONDecodeError THEN Outcome(JSONDecodeError, EmptyDict, 1, f)
        ELSE IF cached = "shown" THEN Outcome("none", json_load(f).config, 1, f)
        ELSE IF l.raised # "none" THEN Outcome(l.raised, EmptyDict, 2, f)
        ELSE Outcome("none", saved, IF f.state = "absent" THEN 0 ELSE 2, write_config(saved))

\* HUGGING_FACE_TOKEN in the environment, and the token typed at the prompt
EnvTokens == {"", "hf_abc"}
TypedTokens == {"hf_abc", "hf_xyz"}

\* start_llama_cpp_server, "# Get HuggingFace token from environment
\* variable or config file" up to "# Save token if provided"
start_llama_cpp_server(f, env_token, typed) ==
    LET l == json_load(f)
        in_file == GetOr(GetOr(l.config, "hugging_face", EmptyDict), "token", "")
        saved == DictSet(IF f.state = "absent" THEN EmptyDict ELSE l.config,
                         "hugging_face", [token |-> typed])
    IN  IF env_token # "" THEN Outcome("none", EmptyDict, 0, f)
        ELSE IF f.state = "absent"
        THEN Outcome("none", saved, 0, write_config(saved))
        ELSE IF l.raised # "none" THEN Outcome(l.raised, EmptyDict, 1, f)
        ELSE IF in_file # "" THEN Outcome("none", l.config, 1, f)
        ELSE Outcome("none", saved, 2, write_config(saved))

LoadSites == {"robo", "display_hardware_info", "start_llama_cpp_server"}
\* One call of a load site: the file it found and what came of it
LoadCall(start, env_token, out) == [start |-> start, env_token |-> env_token, out |-> out]
SiteNotCalled == LoadCall(NoFile, "", Outcome("not called", EmptyDict, 0, NoFile))
NoLoad == [site \in LoadSites |-> SiteNotCalled]
LoadIdle == ld = NoLoad

(***************************************************************************)
(* The MCP timer utility: TimerAPI.predict and the threading.Timer thread  *)
(* that each start request spawns.                                         *)
(***************************************************************************)
\* Timers one run may start; the n-th uuid4 is modelled as n
MaxTimers == 2
TimerIds == 1..MaxTimers
\* hours, minutes and seconds of a start request
Durations == {0, 1}

MsgTimerCancelled == "Timer cancelled."
MsgInvalidTimerId == "Invalid or missing timer_id."
MsgDurationNotPositive == "Duration must be greater than zero."

\* What predict returns
Response(action, timer_id, message, error, active) ==
    [action |-> action, timer_id |-> timer_id, message |-> message,
     error |-> error, active |-> active]
NoResponse == Response("none", 0, <<>>, "", {})

\* A threading.Timer thread: "waiting" in finished.wait(interval) after
\* start(); "expired" once the wait has timed out with finished not set,
\* the function about to be called; "completed" when _complete has run;
\* "cancelled" when cancel() set finished during the wait
ThreadStates == {"unborn", "waiting", "expired", "completed", "cancelled"}

\* threading.Timer.cancel(): stops the timer only in its waiting stage
thread_cancel(state) == IF state = "waiting" THEN "cancelled" ELSE state

\* A cancel or list request between its steps: cancel has found tid in
\* self.timers; list has created the iterator over self.timers.items()
\* (used is what the dict held then) and collected active so far
Request(action, tid, used, active) ==
    [action |-> action, tid |-> tid, used |-> used, active |-> active]
NoRequest == Request("none", 0, {}, {})

\* self.timers, the threads, the uuids handed out, the start request
\* being handled, the last response, the ids whose cancel was
\* acknowledged, the cancel or list request being handled, and the
\* exception that ended the last request, if one did
TimerAPI(timers, thread, issued, starting, resp, cancelled, handling, raised) ==
    [timers |-> timers, thread |-> thread, issued |-> issued,
     starting |-> starting, resp |-> resp, cancelled |-> cancelled,
     handling |-> handling, raised |-> raised]
\* setup(): self.timers = {}
NoTimers ==
    TimerAPI({}, [id \in TimerIds |-> "unborn"], 0, 0, NoResponse, {}, NoRequest, "none")
TimerIdle == tm = NoTimers

(***************************************************************************)
(* The mock robots of the LeRobot endpoint example: SimpleMockRobot of     *)
(* test_mock_minimal.py and MockRobot of model.py.  Joint positions are    *)
(* counted in thousandths of a radian.                                     *)
(***************************************************************************)
\* degrees of freedom of both mocks
DOF == 6
\* max_velocity * dt = 0.1 * 0.02 rad
MaxStep == 2
\* the longest position list handed to write_positions
MaxPositionsLen == 7

\* Position lists of every length: all joints at rest, all at a target out
\* of one step's reach, and the two alternating
Patterns == {"rest", "reach", "mixed"}
TargetAt(pattern, i) ==
    IF pattern = "rest" THEN 0
    ELSE IF pattern = "reach" THEN 3
    ELSE IF i % 2 = 1 THEN 3 ELSE 0
PositionLists ==
    {[i \in 1..n |-> TargetAt(pattern, i)] : n \in 0..MaxPositionsLen, pattern \in Patterns}

\* [0.0] * 6 and np.zeros(6)
Zeros == [i \in 1..DOF |-> 0]

Written(ret, raised, positions) == [ret |-> ret, raised |-> raised, positions |-> positions]

\* SimpleMockRobot.write_positions(positions)
simple_write_positions(stored, positions) ==
    IF Len(positions) # DOF THEN Written(PyFalse, "none", stored)
    ELSE Written(PyTrue, "none", positions)

\* np.clip(diff, -max_velocity * dt, max_velocity * dt)
Clip(diff, lo, hi) == IF diff < lo THEN lo ELSE IF diff > hi THEN hi ELSE diff

\* MockRobot.write_positions(positions): joint i of the argument moves
\* joint i of the robot, and joint_positions[i] past the last joint raises
\* IndexError after the joints before it have moved
mock_write_positions(joint_positions, positions) ==
    LET moved == [i \in 1..DOF |->
                    IF i <= Len(positions)
                    THEN joint_positions[i]
                         + Clip(positions[i] - joint_positions[i], -MaxStep, MaxStep)
                    ELSE joint_positions[i]]
    IN  IF Len(positions) > DOF THEN Written(PyNone, "IndexError", moved)
        ELSE Written(PyTrue, "none", moved)

\* A robot, its stored positions, and its last write_positions call
Robot(cls, positions, before, arg, out) ==
    [cls |-> cls, positions |-> positions, before |-> before, arg |-> arg, out |-> out]
NotWritten == Written(PyNone, "not called", <<>>)
NoRobot == Robot("none", <<>>, <<>>, <<>>, NotWritten)
BotIdle == bot = NoRobot

(***************************************************************************)
(* handle_existing_dataset(repo_id): the loop that settles the dataset     *)
(* repository of a recording.                                              *)
(***************************************************************************)
\* f"{hf_username}/{dataset_name}" and what is typed at "Enter a new
\* repository ID"; "" takes the default, the current repo_id
RepoIds == {"user/lerobot-dataset", "user/pick-cube", "user/stack-blocks"}
RepoAnswers == RepoIds \cup {""}
\* What is at HF_LEROBOT_HOME / repo_id
PathKinds == {"absent", "dir", "file"}
FileSystems == [RepoIds -> PathKinds]

\* Mutant: any path of that name counts as a dataset
check_dataset_exists_any_path(fs, repo_id) == fs[repo_id] # "absent"

\* check_dataset_exists(repo_id): dataset_path.exists() and dataset_path.is_dir()
check_dataset_exists(fs, repo_id) == fs[repo_id] = "dir"

\* Prompt.ask("Enter a new repository ID", default=repo_id)
ask_new_repo_id(typed, repo_id) == IF typed = "" THEN repo_id ELSE typed

\* The call: the file system, the loop variable repo_id, where the loop
\* is, the last answer to "Resume recording?", whether a new id was asked
\* for, and the returned pair
Handling(pc, fs, repo_id, choice, renamed, ret) ==
    [pc |-> pc, fs |-> fs, repo_id |-> repo_id, choice |-> choice,
     renamed |-> renamed, ret |-> ret]
NoReturn == [repo_id |-> "", should_resume |-> PyNone]
NoHandling == Handling("idle", [r \in RepoIds |-> "absent"], "", PyNone, FALSE, NoReturn)
HedIdle == hed = NoHandling

(***************************************************************************)
(* The LeRobot inference endpoint: LeRobotAPI.predict and                  *)
(* LeRobotControlAPI.reset on the action buffer.                           *)
(***************************************************************************)
\* self.max_buffer_size
max_buffer_size == 5
\* predict calls between two resets
MaxPredicts == 7
\* What self.model.predict(observation) returns, as one number per action
Actions == {0, 2}

\* Mutant: the buffer is never trimmed
append_action_unbounded(action_buffer, action) == Append(action_buffer, action)

\* self.action_buffer.append(action); if len(self.action_buffer) >
\* self.max_buffer_size: self.action_buffer.pop(0)
append_action(action_buffer, action) ==
    LET appended == Append(action_buffer, action)
    IN  IF Len(appended) > max_buffer_size THEN Tail(appended) ELSE appended

RECURSIVE SumOf(_)
SumOf(seq) == IF seq = <<>> THEN 0 ELSE Head(seq) + SumOf(Tail(seq))

\* np.mean(self.action_buffer, axis=0), as the pair (sum, count), or the
\* action itself when it is alone in the buffer
smoothed_action(action_buffer, action) ==
    IF Len(action_buffer) > 1 THEN <<SumOf(action_buffer), Len(action_buffer)>>
    ELSE <<action, 1>>

\* The endpoint: the buffer, the actions predicted since the last reset,
\* the last call and what it returned
Endpoint(action_buffer, predicted, last, ret) ==
    [action_buffer |-> action_buffer, predicted |-> predicted, last |-> last, ret |-> ret]
\* setup(): self.action_buffer = []
NoEndpoint == Endpoint(<<>>, <<>>, "setup", <<>>)
ApiIdle == api = NoEndpoint

(***************************************************************************)
(* build_camera_configuration(camera_config): the cameras dict of the      *)
(* follower configuration, keyed by viewing angle.                         *)
(***************************************************************************)
\* cam_info.get('type', 'Unknown') of a camera that find_available_cameras
\* found: the two types it searches for
CameraTypes == {"OpenCV", "RealSense"}

\* The loop over camera_config['cameras'], from the dict so far:
\* cameras_dict[cam['angle']] = OpenCVCameraConfig(...) or
\* RealSenseCameraConfig(...) of the camera, nothing for another type
RECURSIVE add_cameras(_, _, _)
add_cameras(cameras_dict, cameras, types) ==
    IF cameras = <<>> THEN cameras_dict
    ELSE LET cam == Head(cameras)
             camera_type == types[cam.index + 1]
         IN  add_cameras(
                 IF camera_type \in {"OpenCV", "RealSense"}
                 THEN DictSet(cameras_dict, cam.angle,
                              [class |-> camera_type, id |-> cam.index])
                 ELSE cameras_dict,
                 Tail(cameras), types)

build_camera_configuration(camera_config, types) ==
    IF camera_config.kind # "enabled" THEN EmptyDict
    ELSE add_cameras(EmptyDict, camera_config.cameras, types)

Built(called, types, cameras_dict) ==
    [called |-> called, types |-> types, cameras_dict |-> cameras_dict]
NotBuilt == Built(FALSE, <<>>, EmptyDict)
BuiltIdle == built = NotBuilt

(***************************************************************************)
(* The call records of each group and their idle values.                   *)
(***************************************************************************)
OrchCall(fn, lerobot_available, main_config, arm_type, run) ==
    [fn |-> fn, lerobot_available |-> lerobot_available,
     main_config |-> main_config, arm_type |-> arm_type, run |-> run]

NoOrch ==
    OrchCall("none", FALSE, EmptyDict, PyNone, OrchRun(EmptyDict, <<>>, FALSE, FALSE))

OrchIdle == orch = NoOrch

(***************************************************************************)
(* Specification of detect_arm_port alone.                                 *)
(***************************************************************************)
NoDetect ==
    DetectRun({}, {}, {}, 0, <<>>, NoList, NotAsked, PyNone, FALSE)

DetectIdle == det = NoDetect
ChkIdle == chk = NoCheck
MoreIdle == use = NoUse /\ DispIdle /\ WrapIdle /\ CamsIdle /\ SelIdle /\ RaceIdle /\ LoadIdle /\ TimerIdle /\ BotIdle /\ HedIdle /\ ApiIdle /\ BuiltIdle
RoboIdle ==
    /\ file = NoFile
    /\ config = EmptyDict
    /\ inv = NoInvocation

\* One call of detect_arm_port from the idle state
DetectCall ==
    /\ DetectIdle
    /\ \E r \in detect_arm_port : det' = r
    /\ UNCHANGED <<orchVars, chkVars, roboVars, moreVars>>

InitDetect == DetectIdle /\ OrchIdle /\ ChkIdle /\ RoboIdle /\ MoreIdle
NextDetect == DetectCall
SpecDetect == InitDetect /\ [][NextDetect]_vars

(***************************************************************************)
(* Specification of the orchestrators alone: one call from the idle state. *)
(***************************************************************************)
CallSetupMotorsAndCalibration ==
    /\ OrchIdle
    /\ \E lerobot_available \in BOOLEAN :
         \E run \in setup_motors_and_calibration(lerobot_available) :
           orch' = OrchCall("setup_motors_and_calibration", lerobot_available,
                            EmptyDict, PyNone, run)
    /\ UNCHANGED <<detVars, chkVars, roboVars, moreVars>>

CallCalibration ==
    /\ OrchIdle
    /\ \E lerobot_available \in BOOLEAN :
         \E run \in calibration(lerobot_available) :
           orch' = OrchCall("calibration", lerobot_available, EmptyDict, PyNone, run)
    /\ UNCHANGED <<detVars, chkVars, roboVars, moreVars>>

CallCalibrationCmd ==
    /\ OrchIdle
    /\ \E main_config \in SessionConfigs, arm_type \in ArmTypes :
         \E run \in calibration_cmd(main_config, arm_type) :
           orch' = OrchCall("calibration_cmd", TRUE, main_config, arm_type, run)
    /\ UNCHANGED <<detVars, chkVars, roboVars, moreVars>>

InitOrch == DetectIdle /\ OrchIdle /\ ChkIdle /\ RoboIdle /\ MoreIdle
NextOrch ==
    \/ CallSetupMotorsAndCalibration
    \/ CallCalibration
    \/ CallCalibrationCmd
SpecOrch == InitOrch /\ [][NextOrch]_vars

(***************************************************************************)
(* Specification of check_calibration_success alone.                       *)
(***************************************************************************)
CallCheckCalibrationSuccess ==
    /\ ChkIdle
    /\ \E arm_config \in ArmConfigs, setup_motors \in BOOLEAN :
         chk' = CheckCall(arm_config, setup_motors,
                          check_calibration_success(arm_config, setup_motors))
    /\ UNCHANGED <<detVars, orchVars, roboVars, moreVars>>

InitCheck == DetectIdle /\ OrchIdle /\ ChkIdle /\ RoboIdle /\ MoreIdle
NextCheck == CallCheckCalibrationSuccess
SpecCheck == InitCheck /\ [][NextCheck]_vars

(***************************************************************************)
(* Specification of the robo command on the Session Configuration file.    *)
(* A behaviour is one invocation of the command, one process: robo loads   *)
(* the file, the mode handler runs its orchestrator, merges the result and *)
(* writes the file.  An exception out of the orchestrator ends the         *)
(* invocation before the write.  The file the invocation starts from is    *)
(* one of SessionConfigs, which include files left by earlier invocations. *)
(***************************************************************************)
\* calibration_mode(config)
CalibrationMode ==
    /\ inv = NoInvocation
    /\ \E lerobot_available \in BOOLEAN, setup_motors \in BOOLEAN :
         \E run \in (IF setup_motors
                     THEN setup_motors_and_calibration(lerobot_available)
                     ELSE calibration(lerobot_available)) :
           LET loaded == robo_load(file)
               saved == calibration_mode_save(loaded, run.dict)
           IN  IF run.raised
               THEN /\ config' = loaded
                    /\ file' = file
                    /\ inv' = Invocation("calibration_mode", loaded, run, 0,
                                         EmptyDict, <<>>, NoTeleop)
               ELSE /\ config' = saved
                    /\ file' = write_config(saved)
                    /\ inv' = Invocation("calibration_mode", loaded, run, 1,
                                         write_config(saved).doc,
                                         check_calibration_success(run.dict, setup_motors),
                                         NoTeleop)
    /\ UNCHANGED <<detVars, orchVars, chkVars, moreVars>>

\* setup_mode(config)
SetupMode ==
    /\ inv = NoInvocation
    /\ \E lerobot_available \in BOOLEAN :
         \E run \in setup_motors_and_calibration(lerobot_available) :
           LET loaded == robo_load(file)
               saved == setup_mode_save(loaded, run.dict)
           IN  IF run.raised
               THEN /\ config' = loaded
                    /\ file' = file
                    /\ inv' = Invocation("setup_mode", loaded, run, 0,
                                         EmptyDict, <<>>, NoTeleop)
               ELSE /\ config' = saved
                    /\ file' = write_config(saved)
                    /\ \E t \in setup_mode_teleop(lerobot_available, run.dict) :
                         inv' = Invocation("setup_mode", loaded, run, 1,
                                           write_config(saved).doc, <<>>, t)
    /\ UNCHANGED <<detVars, orchVars, chkVars, moreVars>>

\* The calibrate command of commands/robots/lerobot: calibration(main_config,
\* arm_type), then save_lerobot_config(main_config, arm_config), the save
\* that module imports
CalibrateAndSave ==
    /\ inv = NoInvocation
    /\ \E arm_type \in ArmTypes :
         LET loaded == robo_load(file)
         IN  \E run \in calibration_cmd(loaded, arm_type) :
               LET saved == save_lerobot_config(loaded, run.dict)
               IN  IF run.raised
                   THEN /\ config' = loaded
                        /\ file' = file
                        /\ inv' = Invocation("calibrate_and_save", loaded, run, 0,
                                             EmptyDict, <<>>, NoTeleop)
                   ELSE /\ config' = saved
                        /\ file' = write_config(saved)
                        /\ inv' = Invocation("calibrate_and_save", loaded, run, 1,
                                             write_config(saved).doc,
                                             check_calibration_success(run.dict, FALSE),
                                             NoTeleop)
    /\ UNCHANGED <<detVars, orchVars, chkVars, moreVars>>

\* teleop_mode(config): nothing is written
TeleopMode ==
    /\ inv = NoInvocation
    /\ \E lerobot_available \in BOOLEAN, use_camera \in BOOLEAN, e \in TeleopOutcomes :
         LET loaded == robo_load(file)
             out == teleop_mode(lerobot_available, loaded, use_camera, e)
         IN  inv' = Invocation("teleop_mode", loaded,
                               OrchRun(EmptyDict, <<>>, out.raised, FALSE), 0,
                               EmptyDict, <<out.msg>>,
                               [ret |-> IF out.msg = MsgTeleopCompleted THEN PyTrue
                                        ELSE IF out.msg = MsgTeleopFailed THEN PyFalse
                                        ELSE PyNone,
                                ext |-> out.ext])
    /\ config' = robo_load(file)
    /\ UNCHANGED <<file, detVars, orchVars, chkVars, moreVars>>

\* recording_mode(config): nothing is written
RecordingMode ==
    /\ inv = NoInvocation
    /\ \E in \in SessionInputs, e \in TeleopOutcomes :
         LET loaded == robo_load(file)
             out == recording_mode(loaded, in, e)
         IN  inv' = Invocation("recording_mode", loaded,
                               OrchRun(EmptyDict, <<>>, out.raised, FALSE), 0,
                               EmptyDict, <<out.msg>>,
                               [ret |-> PyNone, ext |-> out.ext])
    /\ config' = robo_load(file)
    /\ UNCHANGED <<file, detVars, orchVars, chkVars, moreVars>>

\* save_lerobot_config(config, arm_config) called a second time in a row on
\* the same config object with the same arm_config
SaveAgain ==
    /\ inv.mode = "calibrate_and_save"
    /\ inv.saves = 1
    /\ config' = save_lerobot_config(config, inv.arm_config)
    /\ file' = write_config(config')
    /\ inv' = [inv EXCEPT !.saves = 2]
    /\ UNCHANGED <<detVars, orchVars, chkVars, moreVars>>

Init ==
    /\ DetectIdle /\ OrchIdle /\ ChkIdle /\ MoreIdle
    /\ file \in {NoFile, InvalidFile} \cup {write_config(cfg) : cfg \in SessionConfigs}
    /\ config = EmptyDict
    /\ inv = NoInvocation

Next ==
    \/ CalibrationMode
    \/ SetupMode
    \/ CalibrateAndSave
    \/ SaveAgain
    \/ TeleopMode
    \/ RecordingMode

Spec == Init /\ [][Next]_vars

(***************************************************************************)
(* Specification of the consumers alone: one call from the idle state on   *)
(* a configuration whose lerobot section is one of LerobotSections.        *)
(***************************************************************************)
CallTeleopMode ==
    /\ MoreIdle
    /\ \E d \in LerobotSections, lerobot_available \in BOOLEAN,
          use_camera \in BOOLEAN, e \in TeleopOutcomes :
         use' = [Use("teleop_mode", d,
                     teleop_mode(lerobot_available, [lerobot |-> d], use_camera, e))
                 EXCEPT !.given = Given(lerobot_available, use_camera)]
    /\ UNCHANGED <<detVars, orchVars, chkVars, roboVars, disp, wrap, cams, cmap, race, ld, tm, bot, hed, api, built>>

CallRecordingMode ==
    /\ MoreIdle
    /\ \E d \in LerobotSections, in \in SessionInputs, e \in TeleopOutcomes :
         use' = Use("recording_mode", d, recording_mode([lerobot |-> d], in, e))
    /\ UNCHANGED <<detVars, orchVars, chkVars, roboVars, disp, wrap, cams, cmap, race, ld, tm, bot, hed, api, built>>

CallInferenceMode ==
    /\ MoreIdle
    /\ \E d \in LerobotSections, in \in SessionInputs, e \in TeleopOutcomes :
         use' = Use("inference_mode", d, inference_mode([lerobot |-> d], in, e))
    /\ UNCHANGED <<detVars, orchVars, chkVars, roboVars, disp, wrap, cams, cmap, race, ld, tm, bot, hed, api, built>>

CallSetupModeStep3 ==
    /\ MoreIdle
    /\ \E d \in LerobotSections, lerobot_available \in BOOLEAN, e \in TeleopOutcomes :
         use' = Use("setup_mode", d, setup_mode_step3(lerobot_available, d, e))
    /\ UNCHANGED <<detVars, orchVars, chkVars, roboVars, disp, wrap, cams, cmap, race, ld, tm, bot, hed, api, built>>

CallCheckOnSection ==
    /\ MoreIdle
    /\ \E d \in LerobotSections, setup_motors \in BOOLEAN :
         use' = Use("check_calibration_success", d,
                    Consumed(NotCalled, check_calibration_success(d, setup_motors)[1],
                             FALSE))
    /\ UNCHANGED <<detVars, orchVars, chkVars, roboVars, disp, wrap, cams, cmap, race, ld, tm, bot, hed, api, built>>

InitConsume == DetectIdle /\ OrchIdle /\ ChkIdle /\ RoboIdle /\ MoreIdle
NextConsume ==
    \/ CallTeleopMode
    \/ CallRecordingMode
    \/ CallInferenceMode
    \/ CallSetupModeStep3
    \/ CallCheckOnSection
SpecConsume == InitConsume /\ [][NextConsume]_vars

(***************************************************************************)
(* Specification of the dispatcher alone: one robo command, or one direct  *)
(* call of handle_lerobot with its own three flags, from the idle state.   *)
(***************************************************************************)
StartFiles == {NoFile, InvalidFile} \cup {write_config(cfg) : cfg \in SessionConfigs}

CallRobo ==
    /\ DispIdle
    /\ \E type \in RoboticsType, flags \in FlagSettings, f \in StartFiles,
          lerobot_installed \in BOOLEAN :
         disp' = Dispatch("robo", type, flags, robo_load(f),
                         robo(type, flags, f, lerobot_installed))
    /\ UNCHANGED <<detVars, orchVars, chkVars, roboVars, use, wrap, cams, cmap, race, ld, tm, bot, hed, api, built>>

CallHandleLerobot ==
    /\ DispIdle
    /\ \E flags \in FlagSettings, f \in StartFiles, lerobot_installed \in BOOLEAN :
         /\ ~flags["train"] /\ ~flags["inference"]
         /\ disp' = Dispatch("handle_lerobot", "lerobot", flags, robo_load(f),
                             handle_lerobot(robo_load(f),
                                            <<flags["calibrate"], flags["teleop"],
                                              flags["record"]>>,
                                            lerobot_installed))
    /\ UNCHANGED <<detVars, orchVars, chkVars, roboVars, use, wrap, cams, cmap, race, ld, tm, bot, hed, api, built>>

InitDispatch == DetectIdle /\ OrchIdle /\ ChkIdle /\ RoboIdle /\ MoreIdle
NextDispatch == CallRobo \/ CallHandleLerobot
SpecDispatch == InitDispatch /\ [][NextDispatch]_vars

(***************************************************************************)
(* Specification of the wrappers of the external calls alone: one call     *)
(* from the idle state.                                                    *)
(***************************************************************************)
CallCalibrateArm ==
    /\ WrapIdle
    /\ \E arm \in {"leader", "follower"}, port \in Ports, t \in RobotTypes,
          lerobot_available \in BOOLEAN, e \in ExtOutcomes :
         \/ wrap' = WrapperCall("calibrate_arm", "utils", arm, port, t,
                                lerobot_available, e,
                                calibrate_arm(lerobot_available, t, e))
         \/ /\ lerobot_available
            /\ wrap' = WrapperCall("calibrate_arm", "commands", arm, port, t,
                                   lerobot_available, e, calibrate_arm_cmd(t, e))
    /\ UNCHANGED <<detVars, orchVars, chkVars, roboVars, use, disp, cams, cmap, race, ld, tm, bot, hed, api, built>>

CallSetupMotorsForArm ==
    /\ WrapIdle
    /\ \E arm \in {"leader", "follower"}, port \in Ports, t \in RobotTypes,
          lerobot_available \in BOOLEAN, e \in ExtOutcomes :
         \/ wrap' = WrapperCall("setup_motors_for_arm", "utils", arm, port, t,
                                lerobot_available, e,
                                setup_motors_for_arm(lerobot_available, t, e))
         \/ /\ lerobot_available
            /\ wrap' = WrapperCall("setup_motors_for_arm", "commands", arm, port, t,
                                   lerobot_available, e, setup_motors_for_arm_cmd(t, e))
    /\ UNCHANGED <<detVars, orchVars, chkVars, roboVars, use, disp, cams, cmap, race, ld, tm, bot, hed, api, built>>

InitWrap == DetectIdle /\ OrchIdle /\ ChkIdle /\ RoboIdle /\ MoreIdle
NextWrap == CallCalibrateArm \/ CallSetupMotorsForArm
SpecWrap == InitWrap /\ [][NextWrap]_vars

(***************************************************************************)
(* Specification of camera discovery alone: one call from the idle state.  *)
(***************************************************************************)
CallFindAvailableCameras ==
    /\ CamsIdle
    /\ \E m \in ModuleImports, o \in BackendOutcomes("OpenCV"),
          r \in BackendOutcomes("RealSense") :
         cams' = CamerasCall(TRUE, m, o, r, find_available_cameras(m, o, r))
    /\ UNCHANGED <<detVars, orchVars, chkVars, roboVars, use, disp, wrap, cmap, race, ld, tm, bot, hed, api, built>>

InitCameras == DetectIdle /\ OrchIdle /\ ChkIdle /\ RoboIdle /\ MoreIdle
NextCameras == CallFindAvailableCameras
SpecCameras == InitCameras /\ [][NextCameras]_vars

(***************************************************************************)
(* Specification of setup_camera_mapping: the call with its angle prompts, *)
(* then one step per answer at "Select cameras", and the return to the top *)
(* of the loop after a rejected answer.                                    *)
(***************************************************************************)
\* the call up to the selection loop: no camera returns {}, one camera
\* returns it with its angle, more ask an angle for each
MappingStart ==
    /\ SelIdle
    /\ \E n \in 0..MaxCameras :
         \E typed \in [1..(IF n = 0 THEN 0 ELSE n) -> AngleInputs] :
           LET angles == [i \in 1..n |-> AngleOf(typed[i])]
           IN  cmap' = IF n = 0
                      THEN Mapping("done", n, <<>>, 0, <<>>, "", CameraConfig("empty", <<>>))
                      ELSE IF n = 1
                      THEN Mapping("done", n, angles, 0, <<>>, "",
                                   CameraConfig("enabled",
                                                <<SelectedCamera(0, angles[1])>>))
                      ELSE Mapping("select", n, angles, 0, <<>>, "",
                                   CameraConfig("none", <<>>))
    /\ UNCHANGED <<detVars, orchVars, chkVars, roboVars, use, disp, wrap, cams, race, ld, tm, bot, hed, api, built>>

\* one answer at "Select cameras"
MappingSelect ==
    /\ cmap.pc = "select"
    /\ \E typed \in Selections :
         LET parsed == parse_selection(typed)
             valid_cameras == valid_cameras_of(parsed.nums, cmap.n)
         IN  cmap' = IF ~parsed.ok
                    THEN [cmap EXCEPT !.pc = "rejected", !.typed = typed,
                                     !.said = "Invalid input."]
                    ELSE IF valid_cameras = <<>>
                    THEN [cmap EXCEPT !.pc = "rejected", !.typed = typed,
                                     !.said = "No valid cameras selected."]
                    ELSE [cmap EXCEPT
                            !.pc = "done", !.typed = typed, !.said = "",
                            !.ret = CameraConfig("enabled",
                                       [i \in 1..Len(valid_cameras) |->
                                          SelectedCamera(valid_cameras[i],
                                                         cmap.angles[valid_cameras[i] + 1])])]
    /\ UNCHANGED <<detVars, orchVars, chkVars, roboVars, use, disp, wrap, cams, race, ld, tm, bot, hed, api, built>>

\* while True: back to the prompt after a rejected answer
MappingRetry ==
    /\ cmap.pc = "rejected"
    /\ cmap.attempts < MaxAttempts
    /\ cmap' = [cmap EXCEPT !.pc = "select", !.attempts = @ + 1, !.typed = <<>>,
                          !.said = ""]
    /\ UNCHANGED <<detVars, orchVars, chkVars, roboVars, use, disp, wrap, cams, race, ld, tm, bot, hed, api, built>>

\* create_follower_config: build_camera_configuration(camera_config) on
\* the configuration setup_camera_mapping returned, the cameras found being
\* of the types given
BuildCameraConfiguration ==
    /\ cmap.pc = "done"
    /\ BuiltIdle
    /\ \E types \in [1..cmap.n -> CameraTypes] :
         built' = Built(TRUE, types, build_camera_configuration(cmap.ret, types))
    /\ UNCHANGED <<detVars, orchVars, chkVars, roboVars, use, disp, wrap, cams, cmap, race, ld, tm, bot, hed, api>>

InitMapping == DetectIdle /\ OrchIdle /\ ChkIdle /\ RoboIdle /\ MoreIdle
NextMapping ==
    MappingStart \/ MappingSelect \/ MappingRetry \/ BuildCameraConfiguration
SpecMapping == InitMapping /\ [][NextMapping]_vars

(***************************************************************************)
(* Specification of the two commands running at once on one file: every    *)
(* open-read-close and every open-write-close is one step, and the steps   *)
(* of the two commands interleave freely.                                  *)
(***************************************************************************)
\* robo(): "# Load existing config"
RoboLoads ==
    /\ race.calib.pc = "start"
    /\ race' = [race EXCEPT !.calib = Command("loaded", robo_load(file), EmptyDict)]
    /\ UNCHANGED <<detVars, orchVars, chkVars, roboVars, use, disp, wrap, cams, cmap, ld, tm, bot, hed, api, built>>

\* calibration_mode: the arms are calibrated, then "# Save to file"
CalibrationSaves ==
    /\ race.calib.pc = "loaded"
    /\ \E lerobot_available \in BOOLEAN, setup_motors \in BOOLEAN :
         \E run \in (IF setup_motors
                     THEN setup_motors_and_calibration(lerobot_available)
                     ELSE calibration(lerobot_available)) :
           IF run.raised
           THEN /\ race' = [race EXCEPT !.calib.pc = "raised"]
                /\ file' = file
           ELSE /\ file' = write_config(calibration_mode_save(race.calib.config, run.dict))
                /\ race' = [race EXCEPT !.calib.pc = "saved",
                                        !.calib.arm_config = run.dict,
                                        !.writes = Append(@, "calibrate")]
    /\ UNCHANGED <<detVars, orchVars, chkVars, config, inv, use, disp, wrap, cams, cmap, ld, tm, bot, hed, api, built>>

\* display_hardware_info: the cached probe is looked up
ProbeChecks ==
    /\ race.probe.pc = "start"
    /\ race' = [race EXCEPT !.probe.pc = display_hardware_info_cached(file)]
    /\ UNCHANGED <<detVars, orchVars, chkVars, roboVars, use, disp, wrap, cams, cmap, ld, tm, bot, hed, api, built>>

\* display_hardware_info: detect_hardware() has run, the file is read again
ProbeReads ==
    /\ race.probe.pc = "detect"
    /\ LET l == display_hardware_info_read(file)
       IN  race' = [race EXCEPT !.probe = Command(IF l.raised # "none" THEN l.raised ELSE "read",
                                                  l.config, EmptyDict)]
    /\ UNCHANGED <<detVars, orchVars, chkVars, roboVars, use, disp, wrap, cams, cmap, ld, tm, bot, hed, api, built>>

\* display_hardware_info: "# Save updated config to config file"
ProbeSaves ==
    /\ race.probe.pc = "read"
    /\ file' = write_config(set_system_info(race.probe.config, SystemInfo))
    /\ race' = [race EXCEPT !.probe.pc = "saved", !.writes = Append(@, "probe")]
    /\ UNCHANGED <<detVars, orchVars, chkVars, config, inv, use, disp, wrap, cams, cmap, ld, tm, bot, hed, api, built>>

InitRace ==
    /\ DetectIdle /\ OrchIdle /\ ChkIdle /\ MoreIdle
    /\ file \in StartFiles
    /\ config = EmptyDict
    /\ inv = NoInvocation
NextRace == RoboLoads \/ CalibrationSaves \/ ProbeChecks \/ ProbeReads \/ ProbeSaves
SpecRace == InitRace /\ [][NextRace]_vars

(***************************************************************************)
(* Specification of the load sites: each command is run once, in any       *)
(* order, on the file as the commands before it left it.                   *)
(***************************************************************************)
CallRoboLoad ==
    /\ ld["robo"] = SiteNotCalled
    /\ ld' = [ld EXCEPT !["robo"] = LoadCall(file, "", robo_loaded(file))]
    /\ UNCHANGED <<detVars, orchVars, chkVars, roboVars, use, disp, wrap, cams, cmap, race, tm, bot, hed, api, built>>

CallDisplayHardwareInfo ==
    /\ ld["display_hardware_info"] = SiteNotCalled
    /\ LET out == display_hardware_info(file)
       IN  /\ ld' = [ld EXCEPT !["display_hardware_info"] = LoadCall(file, "", out)]
           /\ file' = out.file
    /\ UNCHANGED <<detVars, orchVars, chkVars, config, inv, use, disp, wrap, cams, cmap, race, tm, bot, hed, api, built>>

CallStartLlamaCppServer ==
    /\ ld["start_llama_cpp_server"] = SiteNotCalled
    /\ \E env_token \in EnvTokens, typed \in TypedTokens :
         LET out == start_llama_cpp_server(file, env_token, typed)
         IN  /\ ld' = [ld EXCEPT !["start_llama_cpp_server"] = LoadCall(file, env_token, out)]
             /\ file' = out.file
    /\ UNCHANGED <<detVars, orchVars, chkVars, config, inv, use, disp, wrap, cams, cmap, race, tm, bot, hed, api, built>>

InitLoad ==
    /\ DetectIdle /\ OrchIdle /\ ChkIdle /\ MoreIdle
    /\ file \in StartFiles
    /\ config = EmptyDict
    /\ inv = NoInvocation
NextLoad == CallRoboLoad \/ CallDisplayHardwareInfo \/ CallStartLlamaCppServer
SpecLoad == InitLoad /\ [][NextLoad]_vars

(***************************************************************************)
(* Specification of the timer utility: requests are handled one at a       *)
(* time, and the timer threads run beside the handler.                     *)
(***************************************************************************)
\* Mutant: the timer is spawned and stored before the duration is rejected
StartRejectedAfterSpawn ==
    /\ tm.starting = 0
    /\ tm.handling = NoRequest
    /\ tm.issued < MaxTimers
    /\ \E hours \in Durations, minutes \in Durations, seconds \in Durations :
         /\ hours * 3600 + minutes * 60 + seconds <= 0
         /\ tm' = [tm EXCEPT !.issued = @ + 1,
                             !.thread[tm.issued + 1] = "waiting",
                             !.timers = @ \cup {tm.issued + 1},
                             !.resp = Response("start", 0, <<>>, MsgDurationNotPositive, {}),
                             !.raised = "none"]
    /\ UNCHANGED <<detVars, orchVars, chkVars, roboVars, use, disp, wrap, cams, cmap, race, ld, bot, hed, api, built>>

\* predict, action 'start', a duration that is not positive
StartRejected ==
    /\ tm.starting = 0
    /\ tm.handling = NoRequest
    /\ \E hours \in Durations, minutes \in Durations, seconds \in Durations :
         /\ hours * 3600 + minutes * 60 + seconds <= 0
         /\ tm' = [tm EXCEPT !.resp = Response("start", 0, <<>>, MsgDurationNotPositive, {}),
                             !.raised = "none"]
    /\ UNCHANGED <<detVars, orchVars, chkVars, roboVars, use, disp, wrap, cams, cmap, race, ld, bot, hed, api, built>>

\* predict, action 'start': threading.Timer(total, _complete, ...).start()
StartSpawns ==
    /\ tm.starting = 0
    /\ tm.handling = NoRequest
    /\ tm.issued < MaxTimers
    /\ \E hours \in Durations, minutes \in Durations, seconds \in Durations :
         LET total == hours * 3600 + minutes * 60 + seconds
             timer_id == tm.issued + 1
         IN  /\ total > 0
             /\ tm' = [tm EXCEPT !.issued = timer_id,
                                 !.starting = timer_id,
                                 !.thread[timer_id] = "waiting",
                                 !.resp = Response("start", timer_id,
                                                   <<"Timer started for", total, "seconds.">>,
                                                   "", {}),
                                 !.raised = "none"]
    /\ UNCHANGED <<detVars, orchVars, chkVars, roboVars, use, disp, wrap, cams, cmap, race, ld, bot, hed, api, built>>

\* predict, action 'start': self.timers[timer_id] = {...}; return
StartStores ==
    /\ tm.starting # 0
    /\ tm' = [tm EXCEPT !.timers = @ \cup {tm.starting}, !.starting = 0]
    /\ UNCHANGED <<detVars, orchVars, chkVars, roboVars, use, disp, wrap, cams, cmap, race, ld, bot, hed, api, built>>

\* the timer thread: the wait times out
TimerExpires ==
    /\ \E tid \in TimerIds :
         /\ tm.thread[tid] = "waiting"
         /\ tm' = [tm EXCEPT !.thread[tid] = "expired"]
    /\ UNCHANGED <<detVars, orchVars, chkVars, roboVars, use, disp, wrap, cams, cmap, race, ld, bot, hed, api, built>>

\* the timer thread: _complete(tid) prints and pops the id
TimerCompletes ==
    /\ \E tid \in TimerIds :
         /\ tm.thread[tid] = "expired"
         /\ tm' = [tm EXCEPT !.thread[tid] = "completed", !.timers = @ \ {tid}]
    /\ UNCHANGED <<detVars, orchVars, chkVars, roboVars, use, disp, wrap, cams, cmap, race, ld, bot, hed, api, built>>

\* predict, action 'cancel': "if not tid or tid not in self.timers";
\* timer_id 0 stands for a missing or unknown id
CancelChecks ==
    /\ tm.starting = 0
    /\ tm.handling = NoRequest
    /\ \E tid \in TimerIds \cup {0} :
         IF tid = 0 \/ tid \notin tm.timers
         THEN tm' = [tm EXCEPT !.resp = Response("cancel", tid, <<>>, MsgInvalidTimerId, {}),
                               !.raised = "none"]
         ELSE tm' = [tm EXCEPT !.handling = Request("cancel", tid, {}, {})]
    /\ UNCHANGED <<detVars, orchVars, chkVars, roboVars, use, disp, wrap, cams, cmap, race, ld, bot, hed, api, built>>

\* predict, action 'cancel': self.timers[tid]['thread'].cancel(), which is
\* a KeyError when the entry has gone, then pop and return
CancelLooksUp ==
    /\ tm.handling.action = "cancel"
    /\ LET tid == tm.handling.tid
       IN  IF tid \notin tm.timers
           THEN tm' = [tm EXCEPT !.handling = NoRequest, !.raised = "KeyError"]
           ELSE tm' = [tm EXCEPT !.thread[tid] = thread_cancel(@),
                                 !.timers = @ \ {tid},
                                 !.cancelled = @ \cup {tid},
                                 !.handling = NoRequest,
                                 !.raised = "none",
                                 !.resp = Response("cancel", tid, <<MsgTimerCancelled>>, "", {})]
    /\ UNCHANGED <<detVars, orchVars, chkVars, roboVars, use, disp, wrap, cams, cmap, race, ld, bot, hed, api, built>>

\* predict, action 'list': "for tid, info in self.timers.items()" creates
\* the iterator
ListStarts ==
    /\ tm.starting = 0
    /\ tm.handling = NoRequest
    /\ tm' = [tm EXCEPT !.handling = Request("list", 0, tm.timers, {})]
    /\ UNCHANGED <<detVars, orchVars, chkVars, roboVars, use, disp, wrap, cams, cmap, race, ld, bot, hed, api, built>>

\* predict, action 'list': the iterator is asked for the next item; it
\* raises RuntimeError when the dict has changed size since it was
\* created, yields an entry for the loop body, or ends the loop and the
\* list is returned
ListNext ==
    /\ tm.handling.action = "list"
    /\ IF Cardinality(tm.timers) # Cardinality(tm.handling.used)
       THEN tm' = [tm EXCEPT !.handling = NoRequest, !.raised = "RuntimeError"]
       ELSE IF tm.handling.active = tm.handling.used
       THEN tm' = [tm EXCEPT !.handling = NoRequest,
                             !.raised = "none",
                             !.resp = Response("list", 0, <<>>, "", tm.handling.active)]
       ELSE \E tid \in tm.handling.used \ tm.handling.active :
              tm' = [tm EXCEPT !.handling.active = @ \cup {tid}]
    /\ UNCHANGED <<detVars, orchVars, chkVars, roboVars, use, disp, wrap, cams, cmap, race, ld, bot, hed, api, built>>

InitTimer == DetectIdle /\ OrchIdle /\ ChkIdle /\ RoboIdle /\ MoreIdle
NextTimer ==
    \/ StartRejected
    \/ StartSpawns
    \/ StartStores
    \/ TimerExpires
    \/ TimerCompletes
    \/ CancelChecks
    \/ CancelLooksUp
    \/ ListStarts
    \/ ListNext
SpecTimer == InitTimer /\ [][NextTimer]_vars

(***************************************************************************)
(* Specification of the mock robots: one is constructed, then written to   *)
(* any number of times.                                                    *)
(***************************************************************************)
\* SimpleMockRobot() and MockRobot()
NewRobot ==
    /\ bot.cls = "none"
    /\ \E cls \in {"SimpleMockRobot", "MockRobot"} :
         bot' = Robot(cls, Zeros, <<>>, <<>>, NotWritten)
    /\ UNCHANGED <<detVars, orchVars, chkVars, roboVars, use, disp, wrap, cams, cmap, race, ld, tm, hed, api, built>>

SimpleWritePositions ==
    /\ bot.cls = "SimpleMockRobot"
    /\ \E positions \in PositionLists :
         LET out == simple_write_positions(bot.positions, positions)
         IN  bot' = Robot(bot.cls, out.positions, bot.positions, positions, out)
    /\ UNCHANGED <<detVars, orchVars, chkVars, roboVars, use, disp, wrap, cams, cmap, race, ld, tm, hed, api, built>>

MockWritePositions ==
    /\ bot.cls = "MockRobot"
    /\ \E positions \in PositionLists :
         LET out == mock_write_positions(bot.positions, positions)
         IN  bot' = Robot(bot.cls, out.positions, bot.positions, positions, out)
    /\ UNCHANGED <<detVars, orchVars, chkVars, roboVars, use, disp, wrap, cams, cmap, race, ld, tm, hed, api, built>>

InitRobot == DetectIdle /\ OrchIdle /\ ChkIdle /\ RoboIdle /\ MoreIdle
NextRobot == NewRobot \/ SimpleWritePositions \/ MockWritePositions
SpecRobot == InitRobot /\ [][NextRobot]_vars

(***************************************************************************)
(* Specification of handle_existing_dataset: one call, step by step        *)
(* through its while True loop.                                            *)
(***************************************************************************)
\* recording_mode calls handle_existing_dataset(initial_repo_id)
HandleExistingDataset ==
    /\ hed.pc = "idle"
    /\ \E fs \in FileSystems, repo_id \in RepoIds :
         hed' = Handling("check", fs, repo_id, PyNone, FALSE, NoReturn)
    /\ UNCHANGED <<detVars, orchVars, chkVars, roboVars, use, disp, wrap, cams, cmap, race, ld, tm, bot, api, built>>

\* if not check_dataset_exists(repo_id, root): return repo_id, False
CheckDataset ==
    /\ hed.pc = "check"
    /\ IF ~check_dataset_exists(hed.fs, hed.repo_id)
       THEN hed' = [hed EXCEPT !.pc = "returned",
                               !.ret = [repo_id |-> hed.repo_id, should_resume |-> PyFalse]]
       ELSE hed' = [hed EXCEPT !.pc = "ask"]
    /\ UNCHANGED <<detVars, orchVars, chkVars, roboVars, use, disp, wrap, cams, cmap, race, ld, tm, bot, api, built>>

\* choice = Confirm.ask("Resume recording?"): return repo_id, True, or
\* ask for a new repository ID and go round again
AnswerResume ==
    /\ hed.pc = "ask"
    /\ \/ hed' = [hed EXCEPT !.pc = "returned", !.choice = PyTrue,
                             !.ret = [repo_id |-> hed.repo_id, should_resume |-> PyTrue]]
       \/ \E typed \in RepoAnswers :
            hed' = [hed EXCEPT !.pc = "check", !.choice = PyFalse, !.renamed = TRUE,
                               !.repo_id = ask_new_repo_id(typed, hed.repo_id)]
    /\ UNCHANGED <<detVars, orchVars, chkVars, roboVars, use, disp, wrap, cams, cmap, race, ld, tm, bot, api, built>>

InitHandle == DetectIdle /\ OrchIdle /\ ChkIdle /\ RoboIdle /\ MoreIdle
NextHandle == HandleExistingDataset \/ CheckDataset \/ AnswerResume
SpecHandle == InitHandle /\ [][NextHandle]_vars

(***************************************************************************)
(* Specification of the endpoint's action buffer: any sequence of predict  *)
(* and reset calls after setup.                                            *)
(***************************************************************************)
\* predict(observation), the model returning an action
Predict ==
    /\ Len(api.predicted) < MaxPredicts
    /\ \E action \in Actions :
         LET buffer == append_action(api.action_buffer, action)
         IN  api' = Endpoint(buffer, Append(api.predicted, action), "predict",
                             smoothed_action(buffer, action))
    /\ UNCHANGED <<detVars, orchVars, chkVars, roboVars, use, disp, wrap, cams, cmap, race, ld, tm, bot, hed, built>>

\* predict(observation), self.model.predict raising: nothing is appended
PredictRaises ==
    /\ api.last # "raised"
    /\ api' = [api EXCEPT !.last = "raised", !.ret = <<>>]
    /\ UNCHANGED <<detVars, orchVars, chkVars, roboVars, use, disp, wrap, cams, cmap, race, ld, tm, bot, hed, built>>

\* reset()
Reset ==
    /\ api' = Endpoint(<<>>, <<>>, "reset", <<>>)
    /\ api' # api
    /\ UNCHANGED <<detVars, orchVars, chkVars, roboVars, use, disp, wrap, cams, cmap, race, ld, tm, bot, hed, built>>

InitEndpoint == DetectIdle /\ OrchIdle /\ ChkIdle /\ RoboIdle /\ MoreIdle
NextEndpoint == Predict \/ PredictRaises \/ Reset
SpecEndpoint == InitEndpoint /\ [][NextEndpoint]_vars

(***************************************************************************)
(* Properties of setup_motors_and_calibration (checked under SpecOrch).    *)
(***************************************************************************)
IsSmc == orch.fn = "setup_motors_and_calibration"
OrchLog == orch.run.log
OrchDict == orch.run.dict

\* the step was called for the arm
Attempted(arm, step) ==
    \E i \in 1..Len(OrchLog) : OrchLog[i][1] = arm /\ OrchLog[i][2] = step

\* the step was called for the arm and gave this result
Gave(arm, step, result) ==
    \E i \in 1..Len(OrchLog) :
        OrchLog[i][1] = arm /\ OrchLog[i][2] = step /\ OrchLog[i][3] = result

PortDetected(arm) == \E p \in Ports : Gave(arm, "detect", p)

LeaderStepFailed ==
    \/ Gave("leader", "detect", PyNone)
    \/ Gave("leader", "motors", PyFalse)
    \/ Gave("leader", "calibrate", PyFalse)

LeaderBeforeFollower ==
    \A i, j \in 1..Len(OrchLog) :
        (OrchLog[i][1] = "leader" /\ OrchLog[j][1] = "follower") => i < j

\* C1 as claimed: the dict returned by setup_motors_and_calibration always
\* contains the keys leader_calibrated and follower_calibrated.
C1_BothFlagsInEveryResult ==
    (IsSmc /\ orch.run.returned)
    => {"leader_calibrated", "follower_calibrated"} \subseteq DOMAIN OrchDict

\* C1 as amended: the dict returned by setup_motors_and_calibration contains
\* robot_type; it contains leader_calibrated, a boolean, exactly when the
\* leader port was detected, and follower_calibrated exactly when both ports
\* were detected, whatever motor setup and calibration gave.
C1_FlagsOfDetectedArms ==
    (IsSmc /\ orch.run.returned)
    => /\ "robot_type" \in DOMAIN OrchDict
       /\ "leader_calibrated" \in DOMAIN OrchDict <=> PortDetected("leader")
       /\ "follower_calibrated" \in DOMAIN OrchDict
              <=> (PortDetected("leader") /\ PortDetected("follower"))
       /\ \A arm \in Arms :
              Key(arm, "_calibrated") \in DOMAIN OrchDict
              => OrchDict[Key(arm, "_calibrated")] \in {PyTrue, PyFalse}

C1_Witness ==
    /\ IsSmc
    /\ orch.run.returned
    /\ Gave("leader", "calibrate", PyFalse)
    /\ Gave("follower", "detect", PyNone)
    /\ "leader_calibrated" \in DOMAIN OrchDict
    /\ "follower_calibrated" \notin DOMAIN OrchDict

\* C2 as claimed: leader steps come before follower steps, and whenever a
\* leader step fails (port not detected, motor setup False, calibration
\* False) the follower's port detection is still attempted, and with a port
\* its motor setup and calibration.
C2_LeaderFailureNeverBlocksFollower ==
    (IsSmc /\ orch.run.returned)
    => /\ LeaderBeforeFollower
       /\ LeaderStepFailed
          => /\ Attempted("follower", "detect")
             /\ PortDetected("follower")
                => /\ Attempted("follower", "motors")
                   /\ Attempted("follower", "calibrate")

\* C2 as amended: leader steps come before follower steps; a failed leader
\* motor setup or calibration does not abort the follower (its port
\* detection is attempted, and with a port its motor setup and calibration),
\* but when the leader port is not detected the function returns at once and
\* no follower step is attempted.
C2_OnlyMissingLeaderPortBlocksFollower ==
    IsSmc
    => /\ LeaderBeforeFollower
       /\ PortDetected("leader")
          => /\ Attempted("leader", "motors")
             /\ Attempted("leader", "calibrate")
             /\ Attempted("follower", "detect")
       /\ (PortDetected("leader") /\ PortDetected("follower"))
          => /\ Attempted("follower", "motors")
             /\ Attempted("follower", "calibrate")
       /\ Gave("leader", "detect", PyNone)
          => /\ orch.run.returned
             /\ \A step \in {"detect", "motors", "calibrate"} :
                    ~Attempted("follower", step)

C2_Witness ==
    /\ IsSmc
    /\ orch.run.returned
    /\ Gave("leader", "motors", PyFalse)
    /\ Gave("leader", "calibrate", PyFalse)
    /\ Attempted("follower", "motors")
    /\ Gave("follower", "calibrate", PyTrue)

(***************************************************************************)
(* Properties of detect_arm_port (checked under SpecDetect).               *)
(***************************************************************************)
DetectCalled == det.snapshots > 0
MenuShown == det.menu # NoList
Range(s) == {s[i] : i \in 1..Len(s)}

\* The number the operator entered at the menu (an empty line is the
\* default "1"), when it is one
TypedNumber == PyInt(PromptAsk(det.typed, <<"1">>))
TypedInRange ==
    TypedNumber.ok /\ 1 <= TypedNumber.val /\ TypedNumber.val <= Len(det.menu)

\* C3: if the snapshot after the connect prompt is the initial snapshot plus
\* exactly one port d, detect_arm_port returns d, with no unplug prompt and
\* no menu.
C3_OneNewPortReturned ==
    \A d \in Ports :
        (DetectCalled /\ d \notin det.before /\ det.after = det.before \cup {d})
        => /\ det.ret = d
           /\ ~det.raised
           /\ det.prompts = <<"connect">>
           /\ det.menu = NoList
           /\ det.snapshots = 2

C3_Witness ==
    /\ DetectCalled
    /\ det.before # {}
    /\ \E d \in Ports \ det.before : det.after = det.before \cup {d} /\ det.ret = d

\* C4: every call of detect_arm_port ends by returning a port or None, never
\* by an exception, whatever the snapshots and the operator's answers; with
\* no port before and after the connect prompt it returns None.
C4_NeverRaises ==
    DetectCalled =>
        /\ ~det.raised
        /\ det.ret \in Ports \cup {PyNone}
        /\ (det.before = {} /\ det.after = {}) => det.ret = PyNone

\* C5: with no new port after the connect prompt and a non-empty initial
\* snapshot, detect_arm_port prompts to unplug and takes a third snapshot; if
\* exactly one initial port is missing from it, that port is returned after
\* the prompt to plug the arm back in; if none is missing, None is returned.
C5_UnplugDifferential ==
    (DetectCalled /\ det.after \ det.before = {} /\ det.before # {})
    => /\ det.snapshots = 3
       /\ Len(det.prompts) >= 2
       /\ det.prompts[1] = "connect"
       /\ det.prompts[2] = "unplug"
       /\ \A p \in Ports :
              det.before \ det.unplugged = {p}
              => /\ det.ret = p
                 /\ ~det.raised
                 /\ det.prompts = <<"connect", "unplug", "replug">>
       /\ det.before \ det.unplugged = {}
          => /\ det.ret = PyNone
             /\ ~det.raised
             /\ det.prompts = <<"connect", "unplug">>

C5_Witness ==
    /\ DetectCalled
    /\ det.after \ det.before = {}
    /\ Cardinality(det.before) > 1
    /\ Cardinality(det.before \ det.unplugged) = 1
    /\ det.ret \in det.before \ det.unplugged

\* C6 as claimed: whenever a menu of several candidates is shown, the port
\* returned is the candidate whose number the operator entered.
C6_ReturnsOperatorSelection ==
    (DetectCalled /\ MenuShown /\ ~det.raised)
    => /\ TypedInRange
       /\ det.ret = det.menu[TypedNumber.val]

\* C6 as amended: a menu is shown exactly when there are several candidates;
\* the port returned after a menu is a member of the candidate list: the
\* candidate whose number the operator entered if that number is in 1..n,
\* and the first listed candidate if the number is out of range; the call
\* returns no port exactly when the answer is not a number.
C6_SelectionOrFirstCandidate ==
    (DetectCalled /\ MenuShown)
    => /\ Len(det.menu) > 1
       /\ Range(det.menu) \in {det.after \ det.before, det.before \ det.unplugged}
       /\ det.raised <=> ~TypedNumber.ok
       /\ ~det.raised => det.ret \in Range(det.menu)
       /\ TypedInRange => det.ret = det.menu[TypedNumber.val]
       /\ (TypedNumber.ok /\ ~TypedInRange) => det.ret = det.menu[1]

C6_Witness ==
    /\ DetectCalled
    /\ MenuShown
    /\ "unplug" \in Range(det.prompts)
    /\ TypedInRange
    /\ TypedNumber.val = 2
    /\ det.ret = det.menu[2]

(***************************************************************************)
(* Properties of check_calibration_success (checked under SpecCheck).      *)
(***************************************************************************)
CheckCalled == chk.out # <<>>

\* the key is present in arm_config with a value other than None, False, ""
HasTruthy(d, k) == k \in DOMAIN d /\ d[k] \notin {PyNone, PyFalse, ""}

\* C7: check_calibration_success takes the 'Arms calibrated successfully'
\* branch if and only if leader_port, leader_calibrated, follower_port and
\* follower_calibrated are all truthy in arm_config, and the 'partially
\* completed' branch for every other arm_config.
C7_SuccessIffBothArmsConfigured ==
    CheckCalled
    => /\ chk.out[1] = MsgSuccess
          <=> \A k \in {"leader_port", "leader_calibrated",
                        "follower_port", "follower_calibrated"} :
                  HasTruthy(chk.arm_config, k)
       /\ chk.out[1] # MsgSuccess => chk.out = <<MsgPartial, MsgRetry>>

C7_Witness ==
    /\ CheckCalled
    /\ chk.arm_config = [leader_port |-> PortNames[1], leader_calibrated |-> PyTrue,
                         follower_port |-> PortNames[2], follower_calibrated |-> PyFalse]
    /\ chk.out[1] = MsgPartial

(***************************************************************************)
(* Properties of the saves and of the persisted flags, under Spec.         *)
(***************************************************************************)
Saved == inv.saves >= 1
Persisted == robo_load(file)
Section(cfg, sec) == IF sec \in DOMAIN cfg THEN cfg[sec] ELSE EmptyDict

\* d and e have the same keys with the same values, except for the keys in
\* except
SameExcept(d, e, except) ==
    /\ DOMAIN d \ except = DOMAIN e \ except
    /\ \A k \in DOMAIN d \ except : d[k] = e[k]

\* C8: after a save (save_lerobot_config, or the inline save of
\* calibration_mode and setup_mode) the written file has lerobot[k] ==
\* arm_config[k] for every key k of arm_config and server.type == 'lerobot';
\* every lerobot key not in arm_config, every other server key and every
\* other top-level key is as it was loaded.
C8_SaveMergesAndKeepsTheRest ==
    Saved =>
        /\ file.state = "valid"
        /\ {"lerobot", "server"} \subseteq DOMAIN Persisted
        /\ \A k \in DOMAIN inv.arm_config :
              /\ k \in DOMAIN Persisted["lerobot"]
              /\ Persisted["lerobot"][k] = inv.arm_config[k]
        /\ "type" \in DOMAIN Persisted["server"]
        /\ Persisted["server"]["type"] = "lerobot"
        /\ SameExcept(Persisted["lerobot"], Section(inv.loaded, "lerobot"),
                      DOMAIN inv.arm_config)
        /\ SameExcept(Persisted["server"], Section(inv.loaded, "server"), {"type"})
        /\ SameExcept(Persisted, inv.loaded, {"lerobot", "server"})

\* an inline save that changed a flag, kept lerobot keys the orchestrator
\* did not return, and kept another server key and another section
C8_Witness ==
    /\ inv.mode = "calibration_mode"
    /\ inv.saves = 1
    /\ "leader_motors_setup" \in DOMAIN Persisted["lerobot"] \ DOMAIN inv.arm_config
    /\ "follower_calibrated" \in DOMAIN inv.arm_config
    /\ Get(Section(inv.loaded, "lerobot"), "follower_calibrated") = PyFalse
    /\ Persisted["lerobot"]["follower_calibrated"] = PyTrue
    /\ "system_info" \in DOMAIN Persisted

\* C9: save_lerobot_config called twice in a row with the same arm_config
\* leaves the file content as it was after the first call.
C9_SaveIdempotent ==
    inv.saves = 2 => (file.state = "valid" /\ file.doc = inv.first_doc)

\* a second save on a file that had neither section before the first
C9_Witness ==
    /\ inv.saves = 2
    /\ inv.loaded = EmptyDict
    /\ "leader_calibrated" \in DOMAIN inv.arm_config

\* C10: the persisted X_calibrated is set to True only in an invocation in
\* which the external calibration call for that arm returned without error:
\* a True written by the invocation, and a True in the file that was not
\* there when the invocation loaded it, both come with that call.
C10_CalibratedFlagOnlyAfterExternalSuccess ==
    \A arm \in Arms :
        /\ (Saved /\ Get(inv.arm_config, Key(arm, "_calibrated")) = PyTrue)
              => arm \in inv.calibrated
        /\ (/\ inv.mode # "none"
            /\ Get(Section(Persisted, "lerobot"), Key(arm, "_calibrated")) = PyTrue
            /\ Get(Section(inv.loaded, "lerobot"), Key(arm, "_calibrated")) # PyTrue)
              => (Saved /\ arm \in inv.calibrated)

\* a full setup that turned the follower's persisted flag from False to True
\* while the leader's calibration failed and its flag went to False
C10_Witness ==
    /\ inv.mode = "setup_mode"
    /\ Saved
    /\ Get(Section(inv.loaded, "lerobot"), "follower_calibrated") = PyFalse
    /\ Get(Section(Persisted, "lerobot"), "follower_calibrated") = PyTrue
    /\ inv.calibrated = {"follower"}
    /\ Get(Section(Persisted, "lerobot"), "leader_calibrated") = PyFalse

(***************************************************************************)
(* Properties of the consumers, under SpecConsume.                         *)
(***************************************************************************)
\* the arm's calibrated flag is True and its port is missing, null or empty
FlagWithoutPort(d, arm) ==
    /\ Get(d, Key(arm, "_calibrated")) = PyTrue
    /\ Get(d, Key(arm, "_port")) \in {PyNone, ""}

\* the arms the consumer needs: inference_mode needs the follower only
NeededArms(consumer) == IF consumer = "inference_mode" THEN {"follower"} ELSE Arms

\* C11: when an arm's calibrated flag is True but its port is missing or
\* empty, every consumer (teleop_mode, recording_mode, inference_mode for the
\* follower, setup_mode, check_calibration_success) treats the arm as not
\* configured: the external teleoperate or record call is not invoked and
\* success is not reported.
C11_FlagWithoutPortIsNotConfigured ==
    (\E arm \in NeededArms(use.consumer) : FlagWithoutPort(use.lerobot, arm))
    => /\ use.out.ext = NotCalled
       /\ use.out.msg \notin SuccessMessages
       /\ ~use.out.raised

\* teleop_mode on a section with both flags True, the follower's port there
\* and the leader's port empty
C11_Witness ==
    /\ use.consumer = "teleop_mode"
    /\ use.lerobot = [leader_port |-> "", leader_calibrated |-> PyTrue,
                      follower_port |-> PortNames[2], follower_calibrated |-> PyTrue]
    /\ use.out = Consumed(NotCalled, MsgNotCalibrated, FALSE)

(***************************************************************************)
(* Properties of the dispatcher, under SpecDispatch.                       *)
(***************************************************************************)
FlagsSet == {x \in Flags : disp.flags[x]}
ModeOfFlag(x) ==
    CASE x = "calibrate" -> "calibration_mode"
      [] x = "teleop" -> "teleop_mode"
      [] x = "record" -> "recording_mode"
      [] x = "train" -> "training_mode"
      [] x = "inference" -> "inference_mode"

\* C12: for every combination of --calibrate, --teleop, --record, --train,
\* --inference the robo command with the lerobot type rejects nothing and
\* runs exactly one mode: full setup with no flag set, the flag's mode with
\* one flag set, one of the set flags' modes with several set.
C12_ExactlyOneModePerInvocation ==
    (disp.fn = "robo" /\ disp.type = "lerobot")
    => /\ disp.out.raised = "none"
       /\ Len(disp.out.modes) = 1
       /\ FlagsSet = {} => disp.out.modes[1] = "setup_mode"
       /\ FlagsSet # {} => \E x \in FlagsSet : disp.out.modes[1] = ModeOfFlag(x)

(***************************************************************************)
(* Properties of the mode branches, under Spec.                            *)
(***************************************************************************)
Branches == {"calibration_mode", "teleop_mode", "recording_mode", "setup_mode"}

WrapperCalled == wrap.fn # "none"

\* C14: calibrate_arm and setup_motors_for_arm return a boolean; they return
\* True exactly when the robot type is supported and the external call
\* (calibrate, device.setup_motors) was made and returned without raising;
\* when the external call raises an Exception they return False and the
\* exception does not reach the caller.
C14_WrappersReportOutcomeAsBoolean ==
    WrapperCalled
    => /\ wrap.out.ret \in {PyTrue, PyFalse}
       /\ wrap.out.ret = PyTrue
            <=> /\ wrap.robot_type \in {"so100", "so101"}
                /\ wrap.lerobot_available
                /\ wrap.ext = "returns"
       /\ wrap.out.ret = PyTrue => wrap.out.ext = "returns"
       /\ wrap.out.ext = "raises" => wrap.out.ret = PyFalse

\* setup_motors_for_arm on a supported type whose device.setup_motors() raises
C14_Witness ==
    /\ wrap.fn = "setup_motors_for_arm"
    /\ wrap.module = "utils"
    /\ wrap.robot_type = "so101"
    /\ wrap.out = [ret |-> PyFalse, ext |-> "raises"]

\* C15: a KeyboardInterrupt raised while the external teleoperate or record
\* call runs is caught by the wrapper: no exception leaves the mode,
\* teleoperation returns True, and the Session Configuration is left as it
\* was before the call, which after a full setup is the file just written
\* with the calibration results.
C15_CtrlCIsACleanStop ==
    inv.teleop.ext = "KeyboardInterrupt"
    => /\ ~inv.raised
       /\ inv.mode \in {"setup_mode", "teleop_mode"} => inv.teleop.ret = PyTrue
       /\ inv.mode = "recording_mode" => inv.report = <<MsgRecordingStopped>>
       /\ inv.mode = "setup_mode"
            => /\ inv.saves = 1
               /\ file.state = "valid"
               /\ file.doc = inv.first_doc
               /\ \A k \in DOMAIN inv.arm_config :
                     Get(Section(Persisted, "lerobot"), k) = inv.arm_config[k]
       /\ inv.mode \in {"teleop_mode", "recording_mode"}
            => (inv.saves = 0 /\ Persisted = inv.loaded)

\* a full setup on an empty config that calibrated both arms, wrote them,
\* and whose teleoperation was stopped with Ctrl-C
C15_Witness ==
    /\ inv.mode = "setup_mode"
    /\ inv.teleop = [ret |-> PyTrue, ext |-> "KeyboardInterrupt"]
    /\ inv.loaded = EmptyDict
    /\ inv.calibrated = Arms
    /\ Get(Section(Persisted, "lerobot"), "leader_calibrated") = PyTrue

(***************************************************************************)
(* Properties of camera discovery, under SpecCameras.                      *)
(***************************************************************************)
\* the backend was searched and its library raised ImportError
BackendImportError(type, outcome) ==
    type \in cams.out.searched /\ outcome.kind = "ImportError"
\* the backend was searched and returned its cameras
BackendReturned(type, outcome) ==
    type \in cams.out.searched /\ outcome.kind = "found"

SelectionParsed == parse_selection(cmap.typed)
InCameraRange(x) == 0 <= x /\ x < cmap.n
EnteredInRange == {x \in Range(SelectionParsed.nums) : InCameraRange(x)}
ReturnedIndexes == {cmap.ret.cameras[i].index : i \in 1..Len(cmap.ret.cameras)}

\* C17 as stated: the function returns only on a numeric selection none of
\* whose indexes is out of range; any other input is prompted again.
C17_OutOfRangeIndexIsPromptedAgain ==
    (cmap.pc = "done" /\ cmap.n >= 2)
    => /\ SelectionParsed.ok
       /\ \A x \in Range(SelectionParsed.nums) : InCameraRange(x)

\* C17: with two or more cameras the function returns only after a
\* selection is entered; the cameras returned are exactly the indexes in
\* 0..n-1 that the operator entered, each with its angle, and there is at
\* least one; an answer is prompted again, without a retry limit, exactly
\* when it is non-numeric or has no index in range; out-of-range indexes
\* next to a valid one are dropped and the answer is accepted.
C17_SelectionKeepsInRangeIndexes ==
    /\ (cmap.pc = "done" /\ cmap.n >= 2)
       => /\ SelectionParsed.ok
          /\ cmap.ret.kind = "enabled"
          /\ ReturnedIndexes # {}
          /\ ReturnedIndexes = EnteredInRange
          /\ \A i \in 1..Len(cmap.ret.cameras) :
                cmap.ret.cameras[i].angle = cmap.angles[cmap.ret.cameras[i].index + 1]
    /\ cmap.pc = "rejected"
       => /\ ~SelectionParsed.ok \/ EnteredInRange = {}
          /\ cmap.ret.kind = "none"

\* after one rejected answer, "0 2" with two cameras is accepted as camera 0
C17_Witness ==
    /\ cmap.pc = "done"
    /\ cmap.n = 2
    /\ cmap.attempts = 1
    /\ cmap.typed = <<"0", " ", "2">>
    /\ ReturnedIndexes = {0}

(***************************************************************************)
(* C18: the file is read, changed in memory and written back without any   *)
(* lock, so when calibration and the hardware probe run at once the file   *)
(* ends as the last writer's copy plus its own change: it holds the other  *)
(* command's update exactly when the last writer had read it, and there    *)
(* is an interleaving after which one of the two updates is missing.       *)
(***************************************************************************)
BothSaved == race.calib.pc = "saved" /\ race.probe.pc = "saved"
LastWriter == race.writes[Len(race.writes)]
HasCalibrationUpdate(cfg) ==
    /\ "lerobot" \in DOMAIN cfg
    /\ \A k \in DOMAIN race.calib.arm_config :
         k \in DOMAIN cfg["lerobot"] /\ cfg["lerobot"][k] = race.calib.arm_config[k]
    /\ "server" \in DOMAIN cfg
    /\ "type" \in DOMAIN cfg["server"]
    /\ cfg["server"]["type"] = "lerobot"
HasProbeUpdate(cfg) ==
    "system_info" \in DOMAIN cfg /\ cfg["system_info"] = SystemInfo

C18_LastWriterDecidesTheFile ==
    BothSaved =>
      /\ file.state = "valid"
      /\ LastWriter = "probe" =>
           /\ HasProbeUpdate(robo_load(file))
           /\ HasCalibrationUpdate(robo_load(file))
                <=> HasCalibrationUpdate(race.probe.config)
      /\ LastWriter = "calibrate" =>
           /\ HasCalibrationUpdate(robo_load(file))
           /\ HasProbeUpdate(robo_load(file)) <=> HasProbeUpdate(race.calib.config)

\* both commands have written and the file lacks the update of one of them
C18_Witness ==
    /\ BothSaved
    /\ \/ ~HasCalibrationUpdate(robo_load(file))
       \/ ~HasProbeUpdate(robo_load(file))

(***************************************************************************)
(* C19: on a file that holds invalid JSON, robo suppresses the decode      *)
(* error and goes on with an empty config, while display_hardware_info     *)
(* and start_llama_cpp_server, whose json.load is under no try, leave      *)
(* with the JSONDecodeError; no site raises it on any other file, and a    *)
(* site that raised it left the file as it was.                            *)
(***************************************************************************)
Called(site) == ld[site] # SiteNotCalled
LoadedTheFile(site) == ld[site].out.loads > 0

C19_DecodeErrorSuppressedByRoboOnly ==
    /\ Called("robo") =>
         /\ ld["robo"].out.raised = "none"
         /\ ld["robo"].start = InvalidFile => ld["robo"].out.config = EmptyDict
    /\ \A site \in LoadSites \ {"robo"} :
         Called(site) =>
           /\ (ld[site].start = InvalidFile /\ LoadedTheFile(site))
                <=> ld[site].out.raised = JSONDecodeError
           /\ ld[site].out.raised \in {"none", JSONDecodeError}
           /\ ld[site].out.raised = JSONDecodeError => ld[site].out.file = ld[site].start
    /\ Called("display_hardware_info") /\ ld["display_hardware_info"].start = InvalidFile
         => LoadedTheFile("display_hardware_info")
    /\ Called("start_llama_cpp_server") /\ ld["start_llama_cpp_server"].start = InvalidFile
         => (LoadedTheFile("start_llama_cpp_server")
               <=> ld["start_llama_cpp_server"].env_token = "")

\* all three sites have met the invalid file: robo went on with {}, the
\* other two raised
C19_Witness ==
    /\ \A site \in LoadSites : Called(site) /\ ld[site].start = InvalidFile
    /\ ld["robo"].out.raised = "none"
    /\ ld["robo"].out.config = EmptyDict
    /\ ld["display_hardware_info"].out.raised = JSONDecodeError
    /\ ld["start_llama_cpp_server"].out.raised = JSONDecodeError

(***************************************************************************)
(* C20: once a cancel request for an active timer id has returned          *)
(* 'Timer cancelled.', no list response reports that id, and the timer's   *)
(* completion callback does not run from then on.                          *)
(***************************************************************************)
C20_CancelledTimerNeitherListedNorCompleted ==
    /\ [](\A tid \in tm.cancelled : ~(tm.resp.action = "list" /\ tid \in tm.resp.active))
    /\ [][\A tid \in tm.cancelled :
            ~(tm.thread[tid] = "expired" /\ tm'.thread[tid] = "completed")]_vars

(***************************************************************************)
(* C21: write_positions with a position list that is not 6 long returns    *)
(* False and leaves the stored joint positions as they were; with 6        *)
(* positions it returns True.                                              *)
(***************************************************************************)
C21_WrongSizeWriteIsRejected ==
    bot.out # NotWritten =>
      /\ Len(bot.arg) # DOF => bot.out.ret = PyFalse /\ bot.positions = bot.before
      /\ Len(bot.arg) = DOF => bot.out.ret = PyTrue

(***************************************************************************)
(* C22: calibration(main_config, arm_type) with arm_type 'leader' detects  *)
(* and calibrates the leader only and returns a dict without follower_port *)
(* and follower_calibrated, and symmetrically for 'follower'; merged into  *)
(* the Session Configuration, the result leaves the other arm's stored     *)
(* port and calibrated flag as they were.                                  *)
(***************************************************************************)
OtherArm(arm) == IF arm = "leader" THEN "follower" ELSE "leader"
SelectiveRun ==
    /\ orch.fn = "calibration_cmd"
    /\ orch.arm_type \in Arms
    /\ orch.run.returned
ArmKeys(arm) == {Key(arm, "_port"), Key(arm, "_calibrated")}
MergedLerobot == Section(save_lerobot_config(orch.main_config, orch.run.dict), "lerobot")

C22_SelectiveCalibrationLeavesOtherArm ==
    SelectiveRun =>
      /\ \A i \in 1..Len(orch.run.log) : orch.run.log[i][1] = orch.arm_type
      /\ ArmKeys(OtherArm(orch.arm_type)) \cap DOMAIN orch.run.dict = {}
      /\ \A k \in ArmKeys(OtherArm(orch.arm_type)) :
           /\ k \in DOMAIN MergedLerobot <=> k \in DOMAIN Section(orch.main_config, "lerobot")
           /\ k \in DOMAIN MergedLerobot =>
                MergedLerobot[k] = Section(orch.main_config, "lerobot")[k]

\* the leader alone was detected anew and calibrated while the file holds
\* a calibrated follower, which the merge keeps
C22_Witness ==
    /\ SelectiveRun
    /\ orch.arm_type = "leader"
    /\ HasTruthy(Section(orch.main_config, "lerobot"), "follower_calibrated")
    /\ "leader_calibrated" \in DOMAIN orch.run.dict
    /\ orch.run.dict["leader_port"] # Section(orch.main_config, "lerobot")["leader_port"]
    /\ MergedLerobot["follower_port"] = Section(orch.main_config, "lerobot")["follower_port"]
    /\ MergedLerobot["leader_port"] = orch.run.dict["leader_port"]

(***************************************************************************)
(* C23: handle_existing_dataset returns (repo_id, False) only when no      *)
(* dataset exists for that repo_id and (repo_id, True) only when one       *)
(* exists and the operator chose to resume; an operator who declines is    *)
(* asked for a new repository ID, which is checked in turn.                *)
(***************************************************************************)
DatasetExists(repo_id) == hed.fs[repo_id] = "dir"

C23_ResumeFlagMatchesDataset ==
    /\ [](hed.pc = "returned" =>
            /\ hed.ret.repo_id = hed.repo_id
            /\ hed.ret.should_resume = PyFalse => ~DatasetExists(hed.ret.repo_id)
            /\ hed.ret.should_resume = PyTrue =>
                 DatasetExists(hed.ret.repo_id) /\ hed.choice = PyTrue
            /\ hed.ret.should_resume \in {PyTrue, PyFalse})
    /\ [][hed.pc = "ask" /\ hed'.choice = PyFalse =>
            hed'.pc = "check" /\ hed'.repo_id \in RepoIds]_vars
    /\ [][hed.pc = "check" /\ DatasetExists(hed.repo_id) => hed'.pc = "ask"]_vars

\* the operator declined to resume, named another repository, and the
\* call returned it with should_resume False
C23_Witness ==
    /\ hed.pc = "returned"
    /\ hed.renamed
    /\ hed.ret.should_resume = PyFalse
    /\ \E r \in RepoIds : DatasetExists(r)

(***************************************************************************)
(* C24: after any sequence of predict and reset calls the action buffer    *)
(* holds at most max_buffer_size = 5 actions: the most recent min(n, 5)    *)
(* of the n actions predicted since the last reset, oldest first; reset    *)
(* empties the buffer.                                                     *)
(***************************************************************************)
Min(a, b) == IF a < b THEN a ELSE b
MostRecent(seq, k) == SubSeq(seq, Len(seq) - k + 1, Len(seq))

C24_BufferHoldsMostRecentActions ==
    /\ Len(api.action_buffer) <= max_buffer_size
    /\ api.action_buffer
         = MostRecent(api.predicted, Min(Len(api.predicted), max_buffer_size))
    /\ api.last = "reset" => api.action_buffer = <<>>

\* a sixth action has been predicted since the last reset and evicted the
\* first, which differed from it
C24_Witness ==
    /\ Len(api.predicted) > max_buffer_size
    /\ api.last = "predict"
    /\ api.predicted[1] # api.action_buffer[1]
    /\ Len(api.action_buffer) = max_buffer_size

(***************************************************************************)
(* C25: a timer request that fails leaves the timer state as it was: a     *)
(* start whose total duration is not greater than zero returns an error    *)
(* and creates no thread and no map entry; a cancel with a missing or      *)
(* unknown timer_id returns an error and leaves the active timers alone.   *)
(* Requests that succeed are exactly the others.                           *)
(***************************************************************************)
Answered == tm'.resp # tm.resp
C25_FailedRequestsChangeNothing ==
    /\ [][Answered /\ tm'.resp.error # "" =>
            /\ tm'.timers = tm.timers
            /\ tm'.thread = tm.thread
            /\ tm'.issued = tm.issued
            /\ tm'.starting = tm.starting
            /\ tm'.cancelled = tm.cancelled]_vars
    /\ [][Answered /\ tm'.resp.action = "cancel" =>
            (tm'.resp.error = MsgInvalidTimerId
               <=> (tm'.resp.timer_id = 0 \/ tm'.resp.timer_id \notin tm.timers))]_vars
    /\ [][Answered /\ tm'.resp.action = "start" =>
            IF tm'.resp.error = ""
            THEN tm'.resp.message[2] > 0 /\ tm'.thread[tm'.resp.timer_id] = "waiting"
            ELSE tm'.resp.error = MsgDurationNotPositive]_vars

\* with a timer active, a cancel for an id that is not in the map was
\* answered with the error, and a start of zero duration likewise
C25_Witness ==
    /\ tm.timers # {}
    /\ \/ /\ tm.resp.error = MsgInvalidTimerId
          /\ tm.resp.timer_id \in TimerIds \ tm.timers
       \/ tm.resp.error = MsgDurationNotPositive

(***************************************************************************)
(* C26: under every interleaving of the request handler with the           *)
(* completion callbacks, every cancel and every list request returns a     *)
(* response: none ends in an exception because a callback removed an       *)
(* entry between cancel's membership test and its lookup, or while list    *)
(* iterates.                                                               *)
(***************************************************************************)
C26_EveryRequestIsAnswered == tm.raised = "none"

(***************************************************************************)
(* C27: once a timer's completion callback has run, its id is not in the   *)
(* active-timers map in any later state, however the start request and     *)
(* the callback interleave, and no list response reports it.               *)
(***************************************************************************)
C27_CompletedTimerIsNotActive ==
    /\ [](\A tid \in TimerIds : tm.thread[tid] = "completed" => tid \notin tm.timers)
    /\ [][tm'.resp # tm.resp /\ tm'.resp.action = "list" =>
            \A tid \in tm'.resp.active : tm.thread[tid] # "completed"]_vars

(***************************************************************************)
(* C28: for every enabled configuration that setup_camera_mapping          *)
(* returns, build_camera_configuration returns one camera entry per        *)
(* selected camera, whatever angles the operator gave (the same one for    *)
(* several cameras included) and whatever the camera types.                *)
(***************************************************************************)
SelectedIndexes == {cmap.ret.cameras[i].index : i \in 1..Len(cmap.ret.cameras)}
C28_OneEntryPerSelectedCamera ==
    built.called /\ cmap.ret.kind = "enabled" =>
      /\ Cardinality(DOMAIN built.cameras_dict) = Cardinality(SelectedIndexes)
      /\ \A index \in SelectedIndexes :
           \E angle \in DOMAIN built.cameras_dict : built.cameras_dict[angle].id = index

(***************************************************************************)
(* C29: in teleop_mode with both arms configured, a supported robot type   *)
(* and the LeRobot modules available, the external teleoperate call is     *)
(* made whatever the operator answers at "Would you like to setup          *)
(* cameras?": declining leads to teleoperation without cameras, not to a   *)
(* failure.                                                                *)
(***************************************************************************)
BothArmsConfigured(d) ==
    \A k \in {"leader_port", "follower_port", "leader_calibrated", "follower_calibrated"} :
      HasTruthy(d, k)
C29_TeleoperateCalledWhateverTheCameraAnswer ==
    (/\ use.consumer = "teleop_mode"
     /\ BothArmsConfigured(use.lerobot)
     /\ use.given.lerobot_available)
    => /\ use.out.ext # NotCalled
       /\ use.out.ext = "returns" <=> use.out.msg = MsgTeleopCompleted

(***************************************************************************)
(* C30: in every dict returned by calibration() or                         *)
(* setup_motors_and_calibration(), for each arm X the key X_calibrated is  *)
(* present exactly when X_port is, and a present X_port is a non-empty     *)
(* port; so whatever the Session Configuration held, the merge that writes *)
(* an arm's port writes that arm's flag of the same run with it.           *)
(***************************************************************************)
ReturnedDict ==
    /\ orch.fn \in {"calibration", "setup_motors_and_calibration", "calibration_cmd"}
    /\ orch.run.returned
MergedInto(cfg) == Section(save_lerobot_config(cfg, orch.run.dict), "lerobot")

C30_PortAndFlagGoTogether ==
    ReturnedDict =>
      \A arm \in Arms :
        /\ Key(arm, "_calibrated") \in DOMAIN orch.run.dict
             <=> Key(arm, "_port") \in DOMAIN orch.run.dict
        /\ Key(arm, "_port") \in DOMAIN orch.run.dict =>
             /\ Truthy(orch.run.dict[Key(arm, "_port")])
             /\ orch.run.dict[Key(arm, "_calibrated")] \in {PyTrue, PyFalse}
             /\ \A cfg \in SessionConfigs :
                  /\ MergedInto(cfg)[Key(arm, "_port")] = orch.run.dict[Key(arm, "_port")]
                  /\ MergedInto(cfg)[Key(arm, "_calibrated")]
                       = orch.run.dict[Key(arm, "_calibrated")]

\* calibration() found the leader's port, the calibration failed, and no
\* follower port was found: the dict has the leader's port with the flag
\* False and neither follower key; merged over a file with both flags True
\* the leader's flag becomes False
C30_Witness ==
    /\ orch.fn = "calibration"
    /\ orch.run.returned
    /\ "leader_port" \in DOMAIN orch.run.dict
    /\ orch.run.dict["leader_calibrated"] = PyFalse
    /\ ArmKeys("follower") \cap DOMAIN orch.run.dict = {}
    /\ \E cfg \in SessionConfigs :
         /\ HasTruthy(Section(cfg, "lerobot"), "leader_calibrated")
         /\ Section(cfg, "lerobot")["leader_port"] # orch.run.dict["leader_port"]
         /\ MergedInto(cfg)["leader_calibrated"] = PyFalse

====
